---------------------------- MODULE Spec2Model ----------------------------
(***************************************************************************)
(* Model of the game ingestion pipeline of lofi-lobby:                     *)
(*   scripts/add-game.mjs     (src/unnamed/part_000, lines 229-990)        *)
(*   scripts/update-game.mjs  (src/scripts/update-game.mjs)                *)
(*   scripts/remove-game.mjs  (src/unnamed/part_002)                       *)
(*   scripts/renpy-utils.mjs  (src/scripts/ensure-games-yaml.mjs, 32-222)  *)
(*                                                                         *)
(* A directory tree is a set of entries [path, dir, size]; a path is a     *)
(* sequence of name segments relative to the root of the tree.  A zip      *)
(* archive is the set of its entries in the same shape (an entry name      *)
(* "A/b.txt" is the path <<"A","b.txt">>, a directory entry "A/" has       *)
(* dir = TRUE).                                                            *)
(***************************************************************************)
EXTENDS Integers, Sequences, FiniteSets, TLC

(***************************************************************************)
(* Bounds of the model.                                                    *)
(***************************************************************************)
MaxRuns == 1
MaxDay == 2

(***************************************************************************)
(* Entries and paths.                                                      *)
(***************************************************************************)
File(p, sz) == [path |-> p, dir |-> FALSE, size |-> sz]
Dir(p) == [path |-> p, dir |-> TRUE, size |-> 0]

IsPrefix(p, q) == Len(p) <= Len(q) /\ SubSeq(q, 1, Len(p)) = p
Strip(p, n) == SubSeq(p, n + 1, Len(p))
Rebase(e, n) == [e EXCEPT !.path = Strip(e.path, n)]

\* The directories that recursive mkdir creates for the entries of t.
Parents(t) == UNION {{Dir(SubSeq(e.path, 1, k)) : k \in 1..(Len(e.path) - 1)} : e \in t}
WithParents(t) == t \cup Parents(t)

\* readdirSync(dir): the entries directly inside dir.
readdir(t, d) == {e \in t : Len(e.path) = Len(d) + 1 /\ IsPrefix(d, e.path)}
\* The content of directory d of t, relative to d.
SubTree(t, d) == {Rebase(e, Len(d)) : e \in {x \in t : Len(x.path) > Len(d) /\ IsPrefix(d, x.path)}}
\* t without directory d and everything in it (rmSync recursive).
Without(t, d) == {e \in t : ~IsPrefix(d, e.path)}
BaseName(e) == e.path[Len(e.path)]
IsDirAt(t, d) == \E e \in t : e.path = d /\ e.dir

(***************************************************************************)
(* File names.  path.extname(name).toLowerCase() of the names the model    *)
(* uses; name.toLowerCase().endsWith('.x') is extname(name) = ".x".        *)
(***************************************************************************)
extname(name) ==
  CASE name \in {"index.html", "2.html", "Play.HTML"} -> ".html"
    [] name \in {"logo.png", "splash.png", "logo-icon.png"} -> ".png"
    [] name = "shot.JPG" -> ".jpg"
    [] name = "script.rpy" -> ".rpy"
    [] name = "script.rpyc" -> ".rpyc"
    [] name = "main.js" -> ".js"
    [] name = "readme.txt" -> ".txt"
    [] name = "update.pem" -> ".pem"
    [] name = "icon.ico" -> ".ico"
    [] name = "icon.ico.bak" -> ".bak"
    [] OTHER -> ""

\* Position of a name in the default Array.prototype.sort() order
\* (UTF-16 code units: digits, then upper case, then lower case).
sortKey(name) ==
  CASE name = "2.html" -> 1
    [] name = "Play.HTML" -> 2
    [] name = "index.html" -> 3
    [] OTHER -> 4

IMAGE_EXTENSIONS == {".png", ".jpg", ".jpeg", ".webp", ".gif"}

\* THUMBNAIL_NAME_HINTS.indexOf(hint) of the first hint that the lower-cased
\* base name contains, or -1 when it contains none.
hintIndex(name) ==
  CASE name = "logo.png" -> 6
    [] name = "splash.png" -> 7
    [] name = "logo-icon.png" -> 1
    [] OTHER -> -1

(***************************************************************************)
(* Structure Planner.                                                      *)
(***************************************************************************)
NoRoot == ""

\* getUnpackStructure (zip): the set of first path segments of all entries.
getUnpackStructure(entries) ==
  LET topLevel == {e.path[1] : e \in {x \in entries : Len(x.path) > 0}}
  IN IF Cardinality(topLevel) = 1
       THEN [flatten |-> TRUE, rootFolder |-> CHOOSE r \in topLevel : TRUE]
       ELSE [flatten |-> FALSE, rootFolder |-> NoRoot]

\* getUnpackStructureFromDir: exactly one entry and it is a directory.
getUnpackStructureFromDir(tree) ==
  LET entries == readdir(tree, <<>>)
      dirs == {e \in entries : e.dir}
  IN IF Cardinality(dirs) = 1 /\ Cardinality(entries) = 1
       THEN [flatten |-> TRUE, rootFolder |-> BaseName(CHOOSE d \in dirs : TRUE)]
       ELSE [flatten |-> FALSE, rootFolder |-> NoRoot]

(***************************************************************************)
(* Materialization.                                                        *)
(***************************************************************************)
\* copyDirContents(src, dest): every entry of src is created in dest; a file
\* of dest at the same path is overwritten.
copyDirContents(src, dest) ==
  {e \in dest : ~\E s \in src : s.path = e.path} \cup src

\* A variant of the flatten loop that writes every entry at its full name.
extractUnflattened(entries, rootFolder) ==
  WithParents({e \in entries : Len(e.path) > 0})

\* The flatten loop: every entry whose name starts with "<rootFolder>/" and has a
\* non-empty rest is written at the rest of its name; parents are created.
extractFlattened(entries, rootFolder) ==
  WithParents({Rebase(e, 1) : e \in
     {x \in entries : Len(x.path) >= 2 /\ x.path[1] = rootFolder}})

\* zip.extractAllTo(gameDir, true).
extractAllTo(entries) == WithParents({e \in entries : Len(e.path) > 0})

\* sourceDirForCopy: the folder a directory source is copied from.
sourceDirForCopy(tree, unpackStructure) ==
  IF unpackStructure.flatten /\ unpackStructure.rootFolder # NoRoot
    THEN SubTree(tree, <<unpackStructure.rootFolder>>)
    ELSE tree

\* What the destination holds after a complete copy or extraction.
materialized(src, unpackStructure) ==
  IF src.kind = "dir"
    THEN copyDirContents(sourceDirForCopy(src.entries, unpackStructure), {})
    ELSE IF unpackStructure.flatten /\ unpackStructure.rootFolder # NoRoot
           THEN extractFlattened(src.entries, unpackStructure.rootFolder)
           ELSE extractAllTo(src.entries)

(***************************************************************************)
(* Ren'Py detection (renpy-utils.mjs).                                     *)
(***************************************************************************)
hasFileWithExt(t, d, ext) ==
  \E e \in t : /\ ~e.dir
               /\ Len(e.path) > Len(d)
               /\ IsPrefix(d, e.path)
               /\ extname(BaseName(e)) = ext

\* A variant of dirContainsRpy that does not descend into subdirectories.
dirContainsRpyShallow(t, d) ==
  \E e \in readdir(t, d) : ~e.dir /\ extname(BaseName(e)) = ".rpy"

dirContainsRpy(t, d) == hasFileWithExt(t, d, ".rpy")
dirContainsRpyc(t, d) == hasFileWithExt(t, d, ".rpyc")

dirHasRenpyGame(t, d) ==
  IsDirAt(t, d \o <<"game">>) /\ dirContainsRpy(t, d \o <<"game">>)

dirHasRenpyDistribution(t, d) ==
  /\ IsDirAt(t, d \o <<"game">>)
  /\ dirContainsRpyc(t, d \o <<"game">>)
  /\ ~dirContainsRpy(t, d \o <<"game">>)

NoPath == [found |-> FALSE, path |-> <<>>]
AtPath(p) == [found |-> TRUE, path |-> p]

\* gameDir itself, or its single directory child, when it has game/ with .rpy.
findRenpyProjectRoot(dest) ==
  IF ~dest.exists THEN NoPath
  ELSE IF dirHasRenpyGame(dest.tree, <<>>) THEN AtPath(<<>>)
  ELSE LET dirs == {e \in readdir(dest.tree, <<>>) : e.dir}
       IN IF Cardinality(dirs) = 1 /\ dirHasRenpyGame(dest.tree, (CHOOSE d \in dirs : TRUE).path)
            THEN AtPath((CHOOSE d \in dirs : TRUE).path)
            ELSE NoPath

\* A variant of findRenpyDistributionRoot that looks at gameDir itself only.
findRenpyDistributionRootOnly(dest) ==
  IF ~dest.exists THEN NoPath
  ELSE IF dirHasRenpyDistribution(dest.tree, <<>>) THEN AtPath(<<>>)
  ELSE NoPath

findRenpyDistributionRoot(dest) ==
  IF ~dest.exists THEN NoPath
  ELSE IF dirHasRenpyDistribution(dest.tree, <<>>) THEN AtPath(<<>>)
  ELSE LET dirs == {e \in readdir(dest.tree, <<>>) : e.dir}
       IN IF Cardinality(dirs) = 1 /\ dirHasRenpyDistribution(dest.tree, (CHOOSE d \in dirs : TRUE).path)
            THEN AtPath((CHOOSE d \in dirs : TRUE).path)
            ELSE NoPath

(***************************************************************************)
(* What a source would yield (add-game.mjs, the dry-run report).           *)
(***************************************************************************)
\* dirWouldYieldRenpyProject: game/ under the folder that is copied.
dirWouldYieldRenpyProject(tree, unpackStructure) ==
  LET root == IF unpackStructure.flatten /\ unpackStructure.rootFolder # NoRoot
                THEN <<unpackStructure.rootFolder>>
                ELSE <<>>
      gameDir == root \o <<"game">>
  IN IF ~IsDirAt(tree, gameDir) THEN FALSE ELSE dirContainsRpy(tree, gameDir)

dirWouldYieldRenpyDistribution(tree, unpackStructure) ==
  LET root == IF unpackStructure.flatten /\ unpackStructure.rootFolder # NoRoot
                THEN <<unpackStructure.rootFolder>>
                ELSE <<>>
      gameDir == root \o <<"game">>
  IN IF ~IsDirAt(tree, gameDir) THEN FALSE
     ELSE dirContainsRpyc(tree, gameDir) /\ ~dirContainsRpy(tree, gameDir)

\* The closures hasGameRpy and hasGameRpyc: some entry name starts with
\* "<prefix>/" (nothing, for the empty prefix), its rest starts with "game/" and,
\* lower-cased, ends with the extension.  A directory entry's name ends with "/".
hasGameFile(entries, prefix, ext) ==
  LET prefixPath == IF prefix = "" THEN <<>> ELSE <<prefix>>
  IN \E e \in entries :
       /\ ~e.dir
       /\ IsPrefix(prefixPath \o <<"game">>, e.path)
       /\ Len(e.path) > Len(prefixPath) + 1
       /\ extname(BaseName(e)) = ext

hasGameRpy(entries, prefix) == hasGameFile(entries, prefix, ".rpy")
hasGameRpyc(entries, prefix) == hasGameFile(entries, prefix, ".rpyc")

\* A variant of zipWouldYieldRenpyProject that looks at the root of the
\* archive only, whatever the unpack plan says.
zipWouldYieldRenpyProjectAtRoot(entries, unpackStructure) == hasGameRpy(entries, "")

zipWouldYieldRenpyProject(entries, unpackStructure) ==
  IF unpackStructure.flatten /\ unpackStructure.rootFolder # NoRoot
    THEN hasGameRpy(entries, unpackStructure.rootFolder)
  ELSE IF hasGameRpy(entries, "") THEN TRUE
  ELSE LET topLevel == {e.path[1] : e \in {x \in entries : Len(x.path) >= 1}}
       IN IF Cardinality(topLevel) # 1 THEN FALSE
          ELSE hasGameRpy(entries, CHOOSE r \in topLevel : TRUE)

zipWouldYieldRenpyDistribution(entries, unpackStructure) ==
  LET check(prefix) == hasGameRpyc(entries, prefix) /\ ~hasGameRpy(entries, prefix)
  IN IF unpackStructure.flatten /\ unpackStructure.rootFolder # NoRoot
       THEN check(unpackStructure.rootFolder)
     ELSE IF check("") THEN TRUE
     ELSE LET topLevel == {e.path[1] : e \in {x \in entries : Len(x.path) >= 1}}
          IN IF Cardinality(topLevel) # 1 THEN FALSE
             ELSE check(CHOOSE r \in topLevel : TRUE)

\* Lines 726-737: the line of the report that names what was detected.
detected(isProject, isDistribution) ==
  IF isProject THEN "project"
  ELSE IF isDistribution THEN "distribution"
  ELSE "none"

(***************************************************************************)
(* Entry-point candidates and thumbnail candidates.                        *)
(***************************************************************************)
Sorted(S) ==
  CHOOSE s \in [1..Cardinality(S) -> S] :
    \A i, j \in 1..Cardinality(S) : i < j => sortKey(s[i]) < sortKey(s[j])

\* Names of the .html files directly at the root, sorted.
getRootHtmlFiles(dest) ==
  IF ~dest.exists THEN <<>>
  ELSE Sorted({BaseName(e) : e \in
         {x \in readdir(dest.tree, <<>>) : ~x.dir /\ extname(BaseName(x)) = ".html"}})

\* A variant of thumbnailScore without the bonus for a file at the root.
thumbnailScoreNoRoot(e) ==
  (IF hintIndex(BaseName(e)) >= 0 THEN 50 - hintIndex(BaseName(e)) ELSE 0)
  + (IF e.size > 1000 THEN 10 ELSE 0)

\* A variant of thumbnailScore whose bonus for a file at the root is 10.
thumbnailScoreLowRoot(e) ==
  (IF Len(e.path) = 1 THEN 10 ELSE 0)
  + (IF hintIndex(BaseName(e)) >= 0 THEN 50 - hintIndex(BaseName(e)) ELSE 0)
  + (IF e.size > 1000 THEN 10 ELSE 0)

\* Lines 583-594: 100 at the root, 50 minus the index of the first hint the
\* name contains, 10 above 1000 bytes.
thumbnailScore(e) ==
  (IF Len(e.path) = 1 THEN 100 ELSE 0)
  + (IF hintIndex(BaseName(e)) >= 0 THEN 50 - hintIndex(BaseName(e)) ELSE 0)
  + (IF e.size > 1000 THEN 10 ELSE 0)

\* The candidates that can be first after the sort by score, then size
\* (among equal ones the traversal order decides, which the file system fixes).
findThumbnailCandidate(dest) ==
  LET candidates == IF dest.exists
                      THEN {e \in dest.tree : ~e.dir /\ extname(BaseName(e)) \in IMAGE_EXTENSIONS}
                      ELSE {}
  IN {c \in candidates : \A o \in candidates :
        \/ thumbnailScore(c) > thumbnailScore(o)
        \/ thumbnailScore(c) = thumbnailScore(o) /\ c.size >= o.size}

\* walk(dir): the candidates in the order they are pushed.  order is the
\* order in which readdirSync lists names; unreadable holds the paths whose
\* statSync throws, which are skipped.
RECURSIVE walk(_, _, _, _)
walk(t, dir, order, unreadable) ==
  LET names == SelectSeq(order, LAMBDA n : \E e \in readdir(t, dir) : BaseName(e) = n)
      visit(n) ==
        LET e == CHOOSE x \in readdir(t, dir) : BaseName(x) = n
        IN IF e.dir THEN walk(t, e.path, order, unreadable)
           ELSE IF extname(n) \in IMAGE_EXTENSIONS /\ e.path \notin unreadable
             THEN <<[filePath |-> e.path, ext |-> extname(n),
                     score |-> thumbnailScore(e), size |-> e.size]>>
             ELSE <<>>
      RECURSIVE visitAll(_)
      visitAll(i) == IF i > Len(names) THEN <<>> ELSE visit(names[i]) \o visitAll(i + 1)
  IN visitAll(1)

\* candidates.sort((a, b) => b.score - a.score || b.size - a.size): a stable
\* sort, so candidates that compare equal keep the order of the walk.
RECURSIVE sortCandidates(_)
sortCandidates(c) ==
  IF Len(c) <= 1 THEN c
  ELSE LET sorted == sortCandidates(SubSeq(c, 1, Len(c) - 1))
           x == c[Len(c)]
           comesFirst(a, b) == a.score > b.score \/ (a.score = b.score /\ a.size > b.size)
           after == {i \in 1..Len(sorted) : comesFirst(x, sorted[i])}
           at == IF after = {} THEN Len(sorted) + 1
                 ELSE CHOOSE i \in after : \A j \in after : i <= j
       IN SubSeq(sorted, 1, at - 1) \o <<x>> \o SubSeq(sorted, at, Len(sorted))

\* findThumbnailCandidate with the order of the walk made explicit: the first
\* candidate after the sort, or null.
firstThumbnailCandidate(t, order, unreadable) ==
  LET sorted == sortCandidates(walk(t, <<>>, order, unreadable))
  IN IF Len(sorted) = 0
       THEN [found |-> FALSE, filePath |-> <<>>, ext |-> ""]
       ELSE [found |-> TRUE, filePath |-> sorted[1].filePath, ext |-> sorted[1].ext]

\* flattenHtmlSubdirIfNeeded: the result of a complete hoist.
htmlContainingSubdirs(t) ==
  {d \in {e \in readdir(t, <<>>) : e.dir} :
     \E f \in readdir(t, d.path) : ~f.dir /\ extname(BaseName(f)) = ".html"}

\* A variant of flattenHtmlSubdirIfNeeded that does not look for pages at the root.
flattenHtmlSubdirAlways(dest) ==
  IF ~dest.exists THEN dest
  ELSE IF Cardinality(htmlContainingSubdirs(dest.tree)) # 1 THEN dest
  ELSE LET sub == (CHOOSE d \in htmlContainingSubdirs(dest.tree) : TRUE).path
       IN [dest EXCEPT !.tree =
             copyDirContents(SubTree(dest.tree, sub), Without(dest.tree, sub))]

\* Lines 537-562: the hoist, when nothing throws.
flattenHtmlSubdirIfNeeded(dest) ==
  IF Len(getRootHtmlFiles(dest)) > 0 \/ ~dest.exists THEN dest
  ELSE IF Cardinality(htmlContainingSubdirs(dest.tree)) # 1 THEN dest
  ELSE LET sub == (CHOOSE d \in htmlContainingSubdirs(dest.tree) : TRUE).path
       IN [dest EXCEPT !.tree =
             copyDirContents(SubTree(dest.tree, sub), Without(dest.tree, sub))]


(***************************************************************************)
(* Packages an operator can supply.  kind is how the source path is        *)
(* stat'ed (a directory, or a file opened as a zip); name is its base      *)
(* name; at is empty for a path outside the checkout, whose content is     *)
(* entries, and is an id when the path is public/play/<id>, whose content  *)
(* is whatever that destination holds.                                     *)
(***************************************************************************)
StaticTree ==
  {File(<<"index.html">>, 300), File(<<"main.js">>, 900), File(<<"shot.JPG">>, 2000)}
MyVNTree ==
  {Dir(<<"MyVN">>), Dir(<<"MyVN", "game">>), File(<<"MyVN", "game", "script.rpy">>, 400),
   File(<<"MyVN", "icon.ico">>, 70)}
DistTree ==
  {Dir(<<"game">>), File(<<"game", "script.rpyc">>, 400), File(<<"readme.txt">>, 50)}
\* A compiled distribution inside a folder, next to a readme.
NestedDistTree ==
  {Dir(<<"MyVN">>), Dir(<<"MyVN", "game">>), File(<<"MyVN", "game", "script.rpyc">>, 400),
   File(<<"readme.txt">>, 50)}
PlainTree == {File(<<"readme.txt">>, 50), File(<<"main.js">>, 900)}
MultiTree == {File(<<"2.html">>, 300), File(<<"index.html">>, 300)}
SingleFileTree == {File(<<"index.html">>, 300)}
SiteTree ==
  {Dir(<<"site">>), File(<<"site", "index.html">>, 300), File(<<"site", "logo.png">>, 1500)}

Sources ==
  << [kind |-> "zip", name |-> "game.zip", entries |-> StaticTree, at |-> ""],
     [kind |-> "zip", name |-> "myvn-v1.2.0.zip", entries |-> MyVNTree, at |-> ""],
     [kind |-> "dir", name |-> "incoming-2.1.0", entries |-> SiteTree, at |-> ""],
     [kind |-> "zip", name |-> "pc-build.zip", entries |-> DistTree, at |-> ""],
     [kind |-> "dir", name |-> "plain", entries |-> PlainTree, at |-> ""],
     [kind |-> "zip", name |-> "multi.zip", entries |-> MultiTree, at |-> ""],
     [kind |-> "zip", name |-> "single.zip", entries |-> SingleFileTree, at |-> ""],
     [kind |-> "dir", name |-> "pc-folder", entries |-> NestedDistTree, at |-> ""],
     [kind |-> "dir", name |-> "a", entries |-> {}, at |-> "a"] >>
SourceIx == 1..Len(Sources)
NoSource == 0

\* What the launcher can leave as the web entry of the *-dists directory.
WebTrees ==
  << {File(<<"index.html">>, 300), File(<<"splash.png">>, 2000)},
     {Dir(<<"MyVN">>), File(<<"MyVN", "index.html">>, 300)},
     {File(<<"main.js">>, 900)} >>

Ids == {"a", "b"}
NoId == ""
NoVersion == ""
ExplicitVersions == {"2.0.0"}
VersionAnswers == {"", "0.9"}

\* extractVersionFromFilename on the base names above: add-game tries the five
\* patterns in order, update-game the three .zip patterns.
extractVersionFromFilename(cmd, name) ==
  CASE name = "myvn-v1.2.0.zip" -> "1.2.0"
    [] cmd = "add" /\ name = "incoming-2.1.0" -> "2.1.0"
    [] OTHER -> NoVersion

(***************************************************************************)
(* The catalog documents and their entries.                                *)
(***************************************************************************)
Docs == {"yaml", "json"}
\* METADATA_FILE of each script.
METADATA_FILE(cmd) == IF cmd = "add" THEN "yaml" ELSE "json"

NoDir == [exists |-> FALSE, tree |-> {}]
ExistingDir(t) == [exists |-> TRUE, tree |-> t]

\* The descriptive fields an operator supplies: empty answers to the three
\* prompts, or values in GAME_NAME, GAME_TYPE and GAME_DESCRIPTION (add-game) and
\* the same values typed in (update-game).
Details ==
  { [name |-> "", type |-> "", description |-> ""],
    [name |-> "Example Game", type |-> "download-only", description |-> "A sample game."] }
\* add-game asks when none of the three variables is set.
fromEnv(details) == details.name # ""

defaultDescription(type) ==
  CASE type = "html" -> "A html game."
    [] type = "renpy" -> "A renpy game."
    [] type = "download-only" -> "A download-only game."
    [] OTHER -> "A game."

thumbnailPathOf(gameId, ext) == <<gameId, ext>>

\* findIndex(g => g.id === gameId); 0 stands for -1.
findIndex(games, gameId) ==
  IF \E i \in 1..Len(games) : games[i].id = gameId
    THEN CHOOSE i \in 1..Len(games) :
           games[i].id = gameId /\ \A j \in 1..(i - 1) : games[j].id # gameId
    ELSE 0

\* A variant of isNewGame that takes every game for a new one.
isNewGameAlways(existingGameIndex) == TRUE

isNewGame(existingGameIndex) == existingGameIndex = 0

\* splice(index, 1)
splice(games, index) ==
  [i \in 1..(Len(games) - 1) |-> IF i < index THEN games[i] ELSE games[i + 1]]


(***************************************************************************)
(* State.                                                                  *)
(*   catalog    each metadata document: its list of games                  *)
(*   play       GAMES_DIR: the destination directory of each id            *)
(*   thumbs     THUMBNAILS_DIR: the files <id><ext> it holds               *)
(*   downloads  DOWNLOADS_DIR: the ids whose <id>.zip it holds             *)
(*   clock      the current date                                           *)
(*   runs       number of invocations started                              *)
(*   run        the local variables of the invocation in progress (or of   *)
(*              the last one, once pc = "done"), with what it did so far   *)
(*              (read: the catalog was read; wrote: it was written; ...)   *)
(*   pre        catalog, play, thumbs, downloads when the invocation began *)
(*   prev       the invocation before this one                             *)
(*   probe      a package under inspection (used by PackageSpec only)      *)
(*   invocations  the local variables of two add-game processes started    *)
(*              side by side (used by ConcurrentSpec only)                 *)
(***************************************************************************)
VARIABLES catalog, play, thumbs, downloads, clock, runs, run, pre, prev, probe,
          invocations

vars == <<catalog, play, thumbs, downloads, clock, runs, run, pre, prev, probe, invocations>>

NoPlan == [flatten |-> FALSE, rootFolder |-> NoRoot]
NoProbe == [op |-> "none"]
Invocations == {"first", "second"}
NoThumb == [found |-> FALSE, ext |-> ""]

\* vendor/renpy without an SDK.
NoSdk == [sdkRoot |-> FALSE, web |-> FALSE, launcher |-> FALSE]

\* The temporary directories of a run: those it has created under os.tmpdir()
\* and those of them that still exist.  tmpDir is renpy-web-<id>-<now>, tmpFlat
\* is renpy-flatten-<now>.
NoTmp == [created |-> {}, present |-> {}]
tmpDir == "renpy-web"
tmpFlat == "renpy-flatten"

IdleRun ==
  [pc |-> "idle", cmd |-> "none", gameId |-> NoId, src |-> NoSource,
   dryRun |-> FALSE, versionArg |-> NoVersion, finalVersion |-> NoVersion,
   unpackStructure |-> NoPlan, metadata |-> <<>>, existingGameIndex |-> 0,
   project |-> NoPath, sdk |-> NoSdk, hiddenIcons |-> {}, builtRenpy |-> FALSE,
   webKind |-> "none", webTree |-> {}, entryPoint |-> "",
   thumbnailCandidate |-> NoThumb, today |-> 0,
   exitCode |-> -1, failure |-> "",
   prompted |-> FALSE, spawned |-> FALSE, wrote |-> FALSE, created |-> FALSE,
   read |-> FALSE, versionAnswer |-> "", tmp |-> NoTmp]

NoPrev == [cmd |-> "none", gameId |-> NoId, src |-> NoSource, versionArg |-> NoVersion,
           committed |-> FALSE, existed |-> FALSE, inserted |-> FALSE]

\* process.exit(code), reached through error() or by returning from main.
Exit(r, code, why) == [r EXCEPT !.pc = "done", !.exitCode = code, !.failure = why]

Snapshot == [catalog |-> catalog, play |-> play, thumbs |-> thumbs, downloads |-> downloads]

Summary(r) ==
  IF r.pc = "done" /\ r.exitCode = 0 /\ ~r.dryRun /\ r.cmd \in {"add", "update"}
    THEN [cmd |-> r.cmd, gameId |-> r.gameId, src |-> r.src, versionArg |-> r.versionArg,
          committed |-> TRUE,
          existed |-> \E i \in 1..Len(pre.catalog[METADATA_FILE(r.cmd)]) :
                        pre.catalog[METADATA_FILE(r.cmd)][i].id = r.gameId,
          inserted |-> Len(catalog[METADATA_FILE(r.cmd)])
                         = Len(pre.catalog[METADATA_FILE(r.cmd)]) + 1]
  ELSE IF r.pc = "done" /\ r.exitCode = 0 /\ ~r.dryRun /\ r.cmd = "remove"
    THEN [cmd |-> "remove", gameId |-> r.gameId, src |-> NoSource, versionArg |-> NoVersion,
          committed |-> TRUE, existed |-> TRUE, inserted |-> FALSE]
    ELSE NoPrev

Idle == run.pc \in {"idle", "done"}

\* fs.existsSync(absoluteSourcePath), and the source as it is found in dirs.
sourceExists(src, dirs) == Sources[src].at = "" \/ dirs[Sources[src].at].exists
\* The source a run works on: none when the path does not exist.
found(src, dirs) == IF src # NoSource /\ sourceExists(src, dirs) THEN src ELSE NoSource
sourceIn(src, dirs) ==
  IF Sources[src].at = "" THEN Sources[src]
  ELSE [Sources[src] EXCEPT !.entries = dirs[Sources[src].at].tree]

\* The catalog entry a script writes for the static package, ingested on day 1
\* with --version 2.0.0 and empty answers to the descriptive prompts.
SeedEntry(cmd, gameId) ==
  [id |-> gameId, name |-> gameId, type |-> "html", version |-> "2.0.0",
   description |-> "A html game.", thumbnail |-> thumbnailPathOf(gameId, ".jpg"),
   playable |-> TRUE, downloadUrl |-> IF cmd = "update" THEN gameId ELSE "",
   lastUpdated |-> 1, entryPoint |-> "index.html"]

\* The entry add-game writes for the same package when the operator gives a
\* name, the type download-only and a description.
DescribedEntry(gameId) ==
  [SeedEntry("add", gameId) EXCEPT
     !.name = "Example Game", !.type = "download-only",
     !.description = "A sample game.", !.playable = FALSE]

\* The invocation that produced the seeded state below.
SeedRun(gameId, again) ==
  [cmd |-> "add", gameId |-> gameId, src |-> 1, versionArg |-> "2.0.0",
   committed |-> TRUE, existed |-> again, inserted |-> ~again]

\* The remove-game invocation that produced the last seeded state below.
SeedRemoval(gameId) ==
  [cmd |-> "remove", gameId |-> gameId, src |-> NoSource, versionArg |-> NoVersion,
   committed |-> TRUE, existed |-> TRUE, inserted |-> FALSE]

\* Either a fresh checkout, or one into which the static package was ingested
\* as "a" on day 1 with --version 2.0.0, by update-game and then by add-game
\* (once, or a second time with the same arguments), or one into which
\* add-game ingested it as "a" with descriptive answers and then as "b", or
\* the first of these after remove-game a.
Init ==
  /\ \E seeded \in BOOLEAN, again \in BOOLEAN, described \in BOOLEAN, removed \in BOOLEAN :
       /\ seeded \/ ~again
       /\ described => (seeded /\ ~again)
       /\ removed => (seeded /\ ~again /\ ~described)
       /\ catalog = [d \in Docs |->
                       IF described /\ d = "yaml"
                         THEN <<DescribedEntry("a"), SeedEntry("add", "b")>>
                       ELSE IF seeded /\ ~(removed /\ d = "json")
                         THEN <<SeedEntry(IF d = "yaml" THEN "add" ELSE "update", "a")>>
                       ELSE <<>>]
       /\ play = [i \in Ids |-> IF seeded /\ ~removed /\ (i = "a" \/ described)
                                  THEN ExistingDir(StaticTree) ELSE NoDir]
       /\ thumbs = IF seeded /\ ~removed
                     THEN {thumbnailPathOf(i, ".jpg") : i \in IF described THEN Ids ELSE {"a"}}
                     ELSE {}
       /\ downloads = IF seeded /\ ~removed THEN {"a"} ELSE {}
       /\ prev = IF removed THEN SeedRemoval("a")
                 ELSE IF seeded THEN SeedRun(IF described THEN "b" ELSE "a", again)
                 ELSE NoPrev
  /\ clock = 1
  /\ runs = 0
  /\ run = IdleRun
  /\ pre = Snapshot
  /\ probe = NoProbe
  /\ invocations = [p \in Invocations |-> [run |-> IdleRun, overlapped |-> FALSE]]

\* The date changes.  Only line 927 reads it, once per run, so a change during
\* a run is the same as one before it, and one after the last run is not seen.
Tick ==
  /\ Idle
  /\ runs < MaxRuns
  /\ clock < MaxDay
  /\ clock' = clock + 1
  /\ UNCHANGED <<catalog, play, thumbs, downloads, runs, run, pre, prev, probe, invocations>>

(***************************************************************************)
(* add-game: main().                                                       *)
(***************************************************************************)
\* A variant of determineVersion that prefers the version in the name to --version.
determineVersionNameFirst(cmd, versionArg, nameForVersion, dryRun, answer) ==
  IF extractVersionFromFilename(cmd, nameForVersion) # NoVersion
    THEN extractVersionFromFilename(cmd, nameForVersion)
  ELSE IF versionArg # NoVersion THEN versionArg
  ELSE IF dryRun THEN "1.0.0"
  ELSE IF answer = "" THEN "1.0.0" ELSE answer

\* A variant of determineVersion that takes the operator's answer as it is.
determineVersionAnswerAsIs(cmd, versionArg, nameForVersion, dryRun, answer) ==
  IF versionArg # NoVersion THEN versionArg
  ELSE IF extractVersionFromFilename(cmd, nameForVersion) # NoVersion
    THEN extractVersionFromFilename(cmd, nameForVersion)
  ELSE IF dryRun THEN "1.0.0"
  ELSE answer

\* Lines 686-702: --version, else the name, else (dry run) 1.0.0, else the
\* operator's answer, 1.0.0 when it is empty.
determineVersion(cmd, versionArg, nameForVersion, dryRun, answer) ==
  IF versionArg # NoVersion THEN versionArg
  ELSE IF extractVersionFromFilename(cmd, nameForVersion) # NoVersion
    THEN extractVersionFromFilename(cmd, nameForVersion)
  ELSE IF dryRun THEN "1.0.0"
  ELSE IF answer = "" THEN "1.0.0" ELSE answer

versionPrompted(cmd, versionArg, nameForVersion, dryRun) ==
  /\ versionArg = NoVersion
  /\ extractVersionFromFilename(cmd, nameForVersion) = NoVersion
  /\ ~dryRun

\* A variant of the dry-run branch that clears the destination as the real run does.
DryRunReportClearing(r) ==
  /\ run' = Exit(r, 0, "")
  /\ play' = [play EXCEPT ![r.gameId] = NoDir]
  /\ UNCHANGED <<catalog, thumbs, downloads>>

\* Lines 720-745: the dry-run report; nothing is changed.
DryRunReport(r) ==
  /\ run' = Exit(r, 0, "")
  /\ UNCHANGED <<catalog, play, thumbs, downloads>>

\* A variant of inputError that clears the destination of the id first.
inputErrorClearing(r) ==
  /\ run' = Exit(r, 1, "input")
  /\ play' = [i \in Ids |-> IF i = r.gameId THEN NoDir ELSE play[i]]
  /\ UNCHANGED <<catalog, thumbs, downloads>>

\* Lines 642-660: the usage message and exit(1) when an argument is missing,
\* error() when the source path does not exist.
inputError(r) ==
  /\ run' = Exit(r, 1, "input")
  /\ UNCHANGED <<catalog, play, thumbs, downloads>>

\* Lines 637-745: arguments, source, unpack plan, version, metadata, dry run.
AddGameStart(gameId, src, versionArg, dryRun, answer) ==
  /\ Idle
  /\ runs < MaxRuns
  /\ runs' = runs + 1
  /\ pre' = Snapshot
  /\ prev' = IF run.pc = "done" THEN Summary(run) ELSE prev
  /\ UNCHANGED <<clock, probe, invocations>>
  /\ LET r0 == [IdleRun EXCEPT !.cmd = "add", !.gameId = gameId, !.src = found(src, play),
                               !.dryRun = dryRun, !.versionArg = versionArg]
     IN IF gameId = NoId \/ src = NoSource \/ ~sourceExists(src, play)
          THEN inputError(r0)
          ELSE LET source == sourceIn(src, play)
                   isSourceDir == source.kind = "dir"
                   unpackStructure == IF isSourceDir
                                        THEN getUnpackStructureFromDir(source.entries)
                                        ELSE getUnpackStructure(source.entries)
                   nameForVersion == IF isSourceDir /\ unpackStructure.flatten
                                       THEN unpackStructure.rootFolder
                                       ELSE source.name
                   metadata == catalog[METADATA_FILE("add")]
                   r1 == [r0 EXCEPT
                            !.unpackStructure = unpackStructure,
                            !.finalVersion = determineVersion("add", versionArg, nameForVersion, dryRun, answer),
                            !.prompted = versionPrompted("add", versionArg, nameForVersion, dryRun),
                            !.versionAnswer =
                               IF versionPrompted("add", versionArg, nameForVersion, dryRun)
                                 THEN answer ELSE "",
                            !.metadata = metadata, !.read = TRUE,
                            !.existingGameIndex = findIndex(metadata, gameId)]
               IN IF dryRun
                    THEN DryRunReport(r1)
                    ELSE /\ run' = [r1 EXCEPT !.pc = "materialize"]
                         /\ UNCHANGED <<catalog, play, thumbs, downloads>>

\* Lines 747-789: clear and create the destination, then copy or extract
\* from the source as it is found then; if that throws (as it does when the
\* folder to copy from is gone), the destination is removed.
AddGameMaterialize ==
  /\ run.pc = "materialize" /\ run.cmd = "add"
  /\ LET cleared == [play EXCEPT ![run.gameId] = ExistingDir({})]
         source == sourceIn(run.src, cleared)
         gone == /\ Sources[run.src].at = run.gameId
                 /\ run.unpackStructure.flatten /\ run.unpackStructure.rootFolder # NoRoot
     IN \E ok \in BOOLEAN :
          IF ok /\ ~gone
            THEN /\ play' = [play EXCEPT ![run.gameId] =
                               ExistingDir(materialized(source, run.unpackStructure))]
                 /\ run' = [run EXCEPT !.pc = "build", !.created = TRUE]
            ELSE /\ play' = [play EXCEPT ![run.gameId] = NoDir]
                 /\ run' = Exit([run EXCEPT !.created = TRUE], 1, "copy")
  /\ UNCHANGED <<catalog, thumbs, downloads, clock, runs, pre, prev, probe, invocations>>


\* rmSync(gameDir, recursive) when it exists.
removeGameDir(gameId) == [play EXCEPT ![gameId] = NoDir]

bakName(name) == IF name = "icon.ico" THEN "icon.ico.bak" ELSE "icon.icns.bak"
ICON_NAMES == {"icon.ico", "icon.icns"}

\* ensureUpdatePem: write update.pem into the project unless it exists.
ensureUpdatePem(t, projectPath) ==
  IF \E e \in t : e.path = projectPath \o <<"update.pem">>
    THEN t
    ELSE t \cup {File(projectPath \o <<"update.pem">>, 240)}

\* The icon files hideProjectIcons finds in the project.
projectIcons(t, projectPath) ==
  {n \in ICON_NAMES : \E e \in t : e.path = projectPath \o <<n>>}

\* hideProjectIcons: rename each of them to <name>.bak.
hideProjectIcons(t, projectPath) ==
  {IF Len(e.path) = Len(projectPath) + 1 /\ IsPrefix(projectPath, e.path)
        /\ BaseName(e) \in ICON_NAMES
     THEN [e EXCEPT !.path = projectPath \o <<bakName(BaseName(e))>>]
     ELSE e : e \in t}

\* restoreProjectIcons: rename each hidden one back when the .bak exists.
restoreProjectIcons(t, projectPath, hidden) ==
  {IF \E n \in hidden : e.path = projectPath \o <<bakName(n)>>
     THEN [e EXCEPT !.path = projectPath \o
             <<CHOOSE n \in hidden : e.path = projectPath \o <<bakName(n)>> >>]
     ELSE e : e \in t}

\* What vendor/renpy holds: the SDK directory renpy-<version> (getSdkRoot), web/
\* inside it (hasWebSupport) and the launcher of the platform inside it
\* (getRenpyLauncher).
SdkInstallations ==
  {i \in [sdkRoot : BOOLEAN, web : BOOLEAN, launcher : BOOLEAN] :
     (i.web \/ i.launcher) => i.sdkRoot}

\* A variant of buildPrecondition that looks for the launcher before Renpyweb.
buildPreconditionLauncherFirst(sdk) ==
  IF ~sdk.sdkRoot THEN "nosdk"
  ELSE IF ~sdk.launcher THEN "nolauncher"
  ELSE IF ~sdk.web THEN "nowebsupport"
  ELSE "ok"

\* Lines 793-807: the first of the three checks that fails, in the order of the
\* code, or "ok".
buildPrecondition(sdk) ==
  IF ~sdk.sdkRoot THEN "nosdk"
  ELSE IF ~sdk.web THEN "nowebsupport"
  ELSE IF ~sdk.launcher THEN "nolauncher"
  ELSE "ok"

\* Lines 794-806: a build precondition is not met; remove the destination, exit 1.
buildUnavailable(r, why) ==
  /\ play' = removeGameDir(r.gameId)
  /\ run' = Exit(r, 1, why)

\* Lines 791-810: detect a Ren'Py project in the destination; check the SDK,
\* Renpyweb and the launcher; prepare the project.
AddGameBuildPrepare ==
  /\ run.pc = "build"
  /\ LET projectPath == findRenpyProjectRoot(play[run.gameId])
     IN IF ~projectPath.found
          THEN /\ run' = [run EXCEPT !.pc = "resolve"]
               /\ UNCHANGED play
          ELSE \E sdk \in SdkInstallations :
                 IF buildPrecondition(sdk) # "ok"
                   THEN buildUnavailable([run EXCEPT !.project = projectPath, !.sdk = sdk],
                                         buildPrecondition(sdk))
                   ELSE /\ play' = [play EXCEPT ![run.gameId].tree =
                                      hideProjectIcons(ensureUpdatePem(@, projectPath.path),
                                                       projectPath.path)]
                        /\ run' = [run EXCEPT
                                     !.pc = "exec",
                                     !.project = projectPath,
                                     !.sdk = sdk,
                                     !.hiddenIcons = projectIcons(play[run.gameId].tree,
                                                                  projectPath.path)]
  /\ UNCHANGED <<catalog, thumbs, downloads, clock, runs, pre, prev, probe, invocations>>

\* What readdirSync finds after the launcher returned: no *-dists directory, one
\* without a web entry, or a web entry that is a directory, a .zip or another file.
WebKinds == {"nodists", "noweb", "dir", "zip", "other"}
ExecOutcomes == {"ok", "fail", "timeout"}

\* A variant of the catch block that exits without removing the destination.
buildFailedKeepingDir(r) ==
  /\ UNCHANGED play
  /\ run' = Exit(r, 1, "build")

\* The catch block of the build (lines 820-822): remove the destination, exit 1.
buildFailed(r) ==
  /\ play' = removeGameDir(r.gameId)
  /\ run' = Exit(r, 1, "build")

\* Lines 811-825: run the launcher with a timeout of 300 s.
AddGameExec ==
  /\ run.pc = "exec"
  /\ \E outcome \in ExecOutcomes :
       IF outcome # "ok"
         THEN buildFailed([run EXCEPT !.spawned = TRUE])
         ELSE \E kind \in WebKinds, w \in 1..Len(WebTrees) :
                /\ kind = "dir" \/ w = 1
                /\ play' = [play EXCEPT ![run.gameId].tree =
                              restoreProjectIcons(@, run.project.path, run.hiddenIcons)]
                /\ run' = [run EXCEPT
                             !.pc = "install", !.spawned = TRUE, !.webKind = kind,
                             !.webTree = IF kind \in {"dir", "zip"} THEN WebTrees[w] ELSE {}]
  /\ UNCHANGED <<catalog, thumbs, downloads, clock, runs, pre, prev, probe, invocations>>

\* fs.mkdirSync(tmp, {recursive: true}) of a directory under os.tmpdir().
mkdirTmp(r, name) ==
  [r EXCEPT !.tmp = [created |-> @.created \cup {name}, present |-> @.present \cup {name}]]

\* A variant of rmTmp that leaves the directory where it is.
rmTmpSkipped(r, name) == r

\* if (fs.existsSync(tmp)) fs.rmSync(tmp, {recursive: true}), in the finally
\* blocks, and the rmSync of line 856.
rmTmp(r, name) == [r EXCEPT !.tmp.present = @ \ {name}]

\* A variant of outputMissing that exits without removing the destination.
outputMissingKeepingDir(r, why) ==
  /\ UNCHANGED play
  /\ run' = Exit(r, 1, why)

\* Lines 833-836, 840-843 and 855-858: the web output is not where it is looked
\* for; remove the destination, exit 1.
outputMissing(r, why) ==
  /\ play' = removeGameDir(r.gameId)
  /\ run' = Exit(r, 1, why)

\* A variant of replaceDestination that copies over what the destination holds.
replaceDestinationKeeping(dest, staged) == ExistingDir(copyDirContents(staged, dest.tree))

\* Lines 860-862: the destination is removed, created, and filled from tmpDir.
replaceDestination(dest, staged) == ExistingDir(copyDirContents(staged, {}))

\* What a copy that throws part-way can leave behind.
PartialCopies(t) ==
  {s \in SUBSET t : s # t /\ \A e \in s : \A p \in Parents({e}) : p \in s \/ p \notin t}

\* Lines 826-866: find the web output, stage it in tmpDir, replace the destination.
\* An exception in the try block is not caught here: it reaches main().catch.
AddGameInstall ==
  /\ run.pc = "install"
  /\ IF run.webKind = "nodists"
       THEN outputMissing(run, "nodists")
     ELSE IF run.webKind = "noweb"
       THEN outputMissing(run, "noweb")
     ELSE IF run.webKind = "other"
       THEN outputMissing(rmTmp(mkdirTmp(run, tmpDir), tmpDir), "badweb")
     ELSE LET staged == IF run.webKind = "dir"
                          THEN copyDirContents(run.webTree, {})
                          ELSE extractAllTo(run.webTree)
              finally == rmTmp(mkdirTmp(run, tmpDir), tmpDir)
          IN \E io \in {"ok", "stage", "replace"} :
               CASE io = "stage" ->
                      /\ UNCHANGED play
                      /\ run' = Exit(finally, 1, "installio")
                 [] io = "replace" ->
                      /\ \E part \in PartialCopies(staged) :
                           play' = [play EXCEPT ![run.gameId] = ExistingDir(part)]
                      /\ run' = Exit(finally, 1, "installio")
                 [] io = "ok" ->
                      /\ play' = [play EXCEPT ![run.gameId] =
                                    replaceDestination(play[run.gameId], staged)]
                      /\ run' = [finally EXCEPT !.pc = "hoist", !.builtRenpy = TRUE]
  /\ UNCHANGED <<catalog, thumbs, downloads, clock, runs, pre, prev, probe, invocations>>

\* Lines 868-871 with flattenHtmlSubdirIfNeeded (537-562).  The staging copy
\* can throw (destination untouched) and so can the copy back, after the
\* subdirectory was removed; neither is caught.
AddGameHoist ==
  /\ run.pc = "hoist"
  /\ LET dest == play[run.gameId]
         hoisted == flattenHtmlSubdirIfNeeded(dest)
     IN IF hoisted = dest
          THEN /\ run' = [run EXCEPT !.pc = "resolve"]
               /\ UNCHANGED play
          ELSE LET sub == (CHOOSE d \in htmlContainingSubdirs(dest.tree) : TRUE).path
                   finally == rmTmp(mkdirTmp(run, tmpFlat), tmpFlat)
               IN \E io \in {"ok", "stage", "copyback"} :
                    CASE io = "ok" ->
                           /\ play' = [play EXCEPT ![run.gameId] = hoisted]
                           /\ run' = [finally EXCEPT !.pc = "resolve"]
                      [] io = "stage" ->
                           /\ UNCHANGED play
                           /\ run' = Exit(finally, 1, "hoistio")
                      [] io = "copyback" ->
                           /\ \E part \in PartialCopies(SubTree(dest.tree, sub)) :
                                play' = [play EXCEPT ![run.gameId].tree =
                                           copyDirContents(part, Without(dest.tree, sub))]
                           /\ run' = Exit(finally, 1, "hoistio")
  /\ UNCHANGED <<catalog, thumbs, downloads, clock, runs, pre, prev, probe, invocations>>


\* parseInt(raw, 10) of the answers the model uses: the number the answer
\* begins with, or NaN when it begins with none.
NaN == [isInteger |-> FALSE, value |-> 0]
Num(n) == [isInteger |-> TRUE, value |-> n]
parseInt(raw) ==
  CASE raw = "0" -> Num(0)
    [] raw = "1" -> Num(1)
    [] raw = "2" -> Num(2)
    [] raw = "3" -> Num(3)
    [] raw = "7" -> Num(7)
    [] raw = "2x" -> Num(2)
    [] raw = "2.html" -> Num(2)
    [] OTHER -> NaN

EntryAnswers == {"", "2", "7", "index.html", "2.html"}

Range(f) == {f[i] : i \in DOMAIN f}

\* A variant of chooseEntryPoint that falls back to the last name of the list.
chooseEntryPointLast(rootHtmlFiles, raw) ==
  LET num == parseInt(raw)
  IN IF num.isInteger /\ num.value >= 1 /\ num.value <= Len(rootHtmlFiles)
       THEN rootHtmlFiles[num.value]
     ELSE IF raw \in Range(rootHtmlFiles) THEN raw
     ELSE rootHtmlFiles[Len(rootHtmlFiles)]

\* Lines 900-909: a number in range, else a listed file name, else the first.
chooseEntryPoint(rootHtmlFiles, raw) ==
  LET num == parseInt(raw)
  IN IF num.isInteger /\ num.value >= 1 /\ num.value <= Len(rootHtmlFiles)
       THEN rootHtmlFiles[num.value]
     ELSE IF raw \in Range(rootHtmlFiles) THEN raw
     ELSE rootHtmlFiles[1]

\* A variant of addGameNoRootHtml that removes the destination in both cases.
addGameNoRootHtmlRemoving(r) ==
  /\ play' = removeGameDir(r.gameId)
  /\ run' = Exit(r, 1, IF findRenpyDistributionRoot(play[r.gameId]).found
                         THEN "distribution" ELSE "nohtml")

\* A variant of addGameNoRootHtml that goes on without an entry point.
addGameNoRootHtmlGoingOn(r) ==
  /\ UNCHANGED play
  /\ run' = [r EXCEPT !.pc = "thumbnail"]

\* Lines 874-890: no .html at the destination root.  A compiled distribution
\* is removed; otherwise the directory is left in place for inspection.
addGameNoRootHtml(r) ==
  IF findRenpyDistributionRoot(play[r.gameId]).found
    THEN /\ play' = removeGameDir(r.gameId)
         /\ run' = Exit(r, 1, "distribution")
    ELSE /\ UNCHANGED play
         /\ run' = Exit(r, 1, "nohtml")

\* update-game lines 322-326: the destination is removed.
updateGameNoRootHtml(r) ==
  /\ play' = removeGameDir(r.gameId)
  /\ run' = Exit(r, 1, "nohtml")

\* Lines 892-911 (update-game 328-347).
selectEntryPoint(r, rootHtmlFiles) ==
  /\ UNCHANGED play
  /\ IF Len(rootHtmlFiles) = 1
       THEN run' = [r EXCEPT !.pc = "thumbnail", !.entryPoint = rootHtmlFiles[1]]
       ELSE \E raw \in EntryAnswers :
              run' = [r EXCEPT !.pc = "thumbnail", !.prompted = TRUE,
                               !.entryPoint = chooseEntryPoint(rootHtmlFiles, raw)]

\* Lines 873-911.
AddGameResolve ==
  /\ run.pc = "resolve" /\ run.cmd = "add"
  /\ LET rootHtmlFiles == getRootHtmlFiles(play[run.gameId])
     IN IF Len(rootHtmlFiles) = 0
          THEN addGameNoRootHtml(run)
          ELSE selectEntryPoint(run, rootHtmlFiles)
  /\ UNCHANGED <<catalog, thumbs, downloads, clock, runs, pre, prev, probe, invocations>>

\* Lines 913-924 (update-game 349-360): copy the best image, if any, to
\* THUMBNAILS_DIR/<id><ext>.  An exception of copyFileSync is not caught.
copyThumbnail(r) ==
  LET candidates == findThumbnailCandidate(play[r.gameId])
  IN IF candidates = {}
       THEN /\ run' = [r EXCEPT !.pc = "reconcile", !.thumbnailCandidate = NoThumb]
            /\ UNCHANGED thumbs
       ELSE \E c \in candidates, ok \in BOOLEAN :
              IF ok
                THEN /\ thumbs' = thumbs \cup {thumbnailPathOf(r.gameId, extname(BaseName(c)))}
                     /\ run' = [r EXCEPT !.pc = "reconcile",
                                  !.thumbnailCandidate =
                                     [found |-> TRUE, ext |-> extname(BaseName(c))]]
                ELSE /\ UNCHANGED thumbs
                     /\ run' = Exit(r, 1, "thumbio")

AddGameThumbnail ==
  /\ run.pc = "thumbnail" /\ run.cmd = "add"
  /\ copyThumbnail(run)
  /\ UNCHANGED <<catalog, play, downloads, clock, runs, pre, prev, probe, invocations>>

\* A variant of thumbnailPath without the default: the extension of the
\* candidate, found or not.
thumbnailPathOfCandidate(r) == thumbnailPathOf(r.gameId, r.thumbnailCandidate.ext)

\* thumbnailPath: the default .png path unless a candidate was copied.
thumbnailPath(r) ==
  IF r.thumbnailCandidate.found
    THEN thumbnailPathOf(r.gameId, r.thumbnailCandidate.ext)
    ELSE thumbnailPathOf(r.gameId, ".png")

\* A variant of newGame that marks every new game playable.
newGamePlayable(r, details, typeDefault, today) ==
  LET type == IF details.type = "" THEN typeDefault ELSE details.type
  IN [id |-> r.gameId,
      name |-> IF details.name = "" THEN r.gameId ELSE details.name,
      type |-> type,
      version |-> r.finalVersion,
      description |-> IF details.description = "" THEN defaultDescription(type)
                      ELSE details.description,
      thumbnail |-> thumbnailPath(r),
      playable |-> TRUE,
      downloadUrl |-> IF r.cmd = "update" THEN r.gameId ELSE "",
      lastUpdated |-> today,
      entryPoint |-> r.entryPoint]

\* Lines 946-956 (update-game 380-391): the entry of a new game.
newGame(r, details, typeDefault, today) ==
  LET type == IF details.type = "" THEN typeDefault ELSE details.type
  IN [id |-> r.gameId,
      name |-> IF details.name = "" THEN r.gameId ELSE details.name,
      type |-> type,
      version |-> r.finalVersion,
      description |-> IF details.description = "" THEN defaultDescription(type)
                      ELSE details.description,
      thumbnail |-> thumbnailPath(r),
      playable |-> type # "download-only",
      downloadUrl |-> IF r.cmd = "update" THEN r.gameId ELSE "",
      lastUpdated |-> today,
      entryPoint |-> r.entryPoint]

\* A variant of updateExisting that always stores this run's thumbnail path.
updateExistingThumbnail(game, r, today) ==
  [game EXCEPT
     !.version = r.finalVersion,
     !.lastUpdated = today,
     !.downloadUrl = IF r.cmd = "update" THEN r.gameId ELSE @,
     !.entryPoint = r.entryPoint,
     !.thumbnail = thumbnailPath(r)]

\* A variant of updateExisting that also resets the name to the id.
updateExistingRenaming(game, r, today) ==
  [game EXCEPT
     !.name = r.gameId,
     !.version = r.finalVersion,
     !.lastUpdated = today,
     !.downloadUrl = IF r.cmd = "update" THEN r.gameId ELSE @,
     !.entryPoint = r.entryPoint,
     !.thumbnail = IF r.thumbnailCandidate.found THEN thumbnailPath(r) ELSE @]

\* Lines 961-967 (update-game 396-403): the fields an update overwrites.
updateExisting(game, r, today) ==
  [game EXCEPT
     !.version = r.finalVersion,
     !.lastUpdated = today,
     !.downloadUrl = IF r.cmd = "update" THEN r.gameId ELSE @,
     !.entryPoint = r.entryPoint,
     !.thumbnail = IF r.thumbnailCandidate.found THEN thumbnailPath(r) ELSE @]

\* A variant of reconcile that pushes an entry whether or not the id is known.
reconcileAlwaysPush(r, details, typeDefault, today) ==
  Append(r.metadata, newGame(r, details, typeDefault, today))

\* Lines 929-969: push the new game, or update the existing one in place.
reconcile(r, details, typeDefault, today) ==
  IF isNewGame(r.existingGameIndex)
    THEN Append(r.metadata, newGame(r, details, typeDefault, today))
    ELSE [r.metadata EXCEPT ![r.existingGameIndex] = updateExisting(@, r, today)]

\* A variant of writeMetadata whose failing write leaves an emptied document.
writeMetadataTorn(r, ok) ==
  IF ok
    THEN /\ catalog' = [catalog EXCEPT ![METADATA_FILE(r.cmd)] = r.metadata]
         /\ run' = Exit([r EXCEPT !.wrote = TRUE], 0, "")
    ELSE /\ catalog' = [catalog EXCEPT ![METADATA_FILE(r.cmd)] = <<>>]
         /\ run' = Exit(r, 1, "write")

\* writeMetadata: writeFileSync of the whole document; when it throws (the
\* file cannot be opened for writing), error() exits with 1.
writeMetadata(r, ok) ==
  IF ok
    THEN /\ catalog' = [catalog EXCEPT ![METADATA_FILE(r.cmd)] = r.metadata]
         /\ run' = Exit([r EXCEPT !.wrote = TRUE], 0, "")
    ELSE /\ UNCHANGED catalog
         /\ run' = Exit(r, 1, "write")

\* Lines 926-972.  The descriptive fields come from GAME_NAME, GAME_TYPE and
\* GAME_DESCRIPTION when one of them is set, else from three prompts.
AddGameReconcile ==
  /\ run.pc = "reconcile" /\ run.cmd = "add"
  /\ \E details \in Details, ok \in BOOLEAN :
       /\ isNewGame(run.existingGameIndex) \/ fromEnv(details)
       /\ writeMetadata(
            [run EXCEPT
               !.today = clock,
               !.prompted = @ \/ (isNewGame(run.existingGameIndex) /\ ~fromEnv(details)),
               !.metadata = reconcile(run, details,
                                      IF run.builtRenpy THEN "renpy" ELSE "html", clock)],
            ok)
  /\ UNCHANGED <<play, thumbs, downloads, clock, runs, pre, prev, probe, invocations>>


(***************************************************************************)
(* update-game: main().                                                    *)
(***************************************************************************)
\* update-game lines 198-283.  A source that AdmZip cannot open (a
\* directory) ends the run at line 232.
UpdateGameStart(gameId, src, versionArg, dryRun, answer) ==
  /\ Idle
  /\ runs < MaxRuns
  /\ runs' = runs + 1
  /\ pre' = Snapshot
  /\ prev' = IF run.pc = "done" THEN Summary(run) ELSE prev
  /\ UNCHANGED <<catalog, play, thumbs, downloads, clock, probe, invocations>>
  /\ LET r0 == [IdleRun EXCEPT !.cmd = "update", !.gameId = gameId, !.src = found(src, play),
                               !.dryRun = dryRun, !.versionArg = versionArg]
     IN IF gameId = NoId \/ src = NoSource \/ ~sourceExists(src, play)
          THEN run' = Exit(r0, 1, "input")
        ELSE IF Sources[src].kind # "zip"
          THEN run' = Exit(r0, 1, "zip")
        ELSE LET source == Sources[src]
                 metadata == catalog[METADATA_FILE("update")]
                 r1 == [r0 EXCEPT
                          !.unpackStructure = getUnpackStructure(source.entries),
                          !.finalVersion = determineVersion("update", versionArg, source.name, dryRun, answer),
                          !.prompted = versionPrompted("update", versionArg, source.name, dryRun),
                          !.metadata = metadata, !.read = TRUE,
                          !.existingGameIndex = findIndex(metadata, gameId)]
             IN IF dryRun
                  THEN run' = Exit(r1, 0, "")
                  ELSE run' = [r1 EXCEPT !.pc = "materialize"]

\* update-game lines 285-320.
UpdateGameMaterialize ==
  /\ run.pc = "materialize" /\ run.cmd = "update"
  /\ \E ok \in BOOLEAN :
       IF ok
         THEN /\ play' = [play EXCEPT ![run.gameId] =
                            ExistingDir(materialized(Sources[run.src], run.unpackStructure))]
              /\ run' = [run EXCEPT !.pc = "resolve", !.created = TRUE]
         ELSE /\ play' = [play EXCEPT ![run.gameId] = NoDir]
              /\ run' = Exit([run EXCEPT !.created = TRUE], 1, "copy")
  /\ UNCHANGED <<catalog, thumbs, downloads, clock, runs, pre, prev, probe, invocations>>

\* update-game lines 322-347.
UpdateGameResolve ==
  /\ run.pc = "resolve" /\ run.cmd = "update"
  /\ LET rootHtmlFiles == getRootHtmlFiles(play[run.gameId])
     IN IF Len(rootHtmlFiles) = 0
          THEN updateGameNoRootHtml(run)
          ELSE selectEntryPoint(run, rootHtmlFiles)
  /\ UNCHANGED <<catalog, thumbs, downloads, clock, runs, pre, prev, probe, invocations>>

\* update-game lines 349-366: the thumbnail, then the copy of the zip to
\* DOWNLOADS_DIR/<id>.zip.
UpdateGameThumbnail ==
  /\ run.pc = "thumbnail" /\ run.cmd = "update"
  /\ copyThumbnail(run)
  /\ downloads' = IF run'.pc = "reconcile" THEN downloads \cup {run.gameId} ELSE downloads
  /\ UNCHANGED <<catalog, play, clock, runs, pre, prev, probe, invocations>>

\* update-game lines 368-408: the descriptive fields are always prompted for.
UpdateGameReconcile ==
  /\ run.pc = "reconcile" /\ run.cmd = "update"
  /\ \E details \in Details, ok \in BOOLEAN :
       /\ isNewGame(run.existingGameIndex) \/ details.name = ""
       /\ writeMetadata(
            [run EXCEPT
               !.today = clock,
               !.prompted = @ \/ isNewGame(run.existingGameIndex),
               !.metadata = reconcile(run, details, "html", clock)],
            ok)
  /\ UNCHANGED <<play, thumbs, downloads, clock, runs, pre, prev, probe, invocations>>

(***************************************************************************)
(* remove-game: main().                                                    *)
(***************************************************************************)
\* remove-game lines 70-136.
RemoveGame(gameId, dryRun, ok) ==
  /\ Idle
  /\ runs < MaxRuns
  /\ runs' = runs + 1
  /\ pre' = Snapshot
  /\ prev' = IF run.pc = "done" THEN Summary(run) ELSE prev
  /\ UNCHANGED <<clock, probe, invocations>>
  /\ LET r0 == [IdleRun EXCEPT !.cmd = "remove", !.gameId = gameId, !.dryRun = dryRun]
         metadata == catalog[METADATA_FILE("remove")]
         index == findIndex(metadata, gameId)
         r1 == [r0 EXCEPT !.metadata = metadata, !.read = TRUE, !.existingGameIndex = index]
     IN IF gameId = NoId
          THEN /\ run' = Exit(r0, 1, "input")
               /\ UNCHANGED <<catalog, play, thumbs, downloads>>
        ELSE IF index = 0
          THEN /\ run' = Exit(r1, 1, "notfound")
               /\ UNCHANGED <<catalog, play, thumbs, downloads>>
        ELSE IF dryRun
          THEN /\ run' = Exit(r1, 0, "")
               /\ UNCHANGED <<catalog, play, thumbs, downloads>>
        ELSE /\ play' = removeGameDir(gameId)
             /\ downloads' = downloads \ {gameId}
             /\ thumbs' = thumbs \ {metadata[index].thumbnail}
             /\ writeMetadata([r1 EXCEPT !.metadata = splice(metadata, index)], ok)

(***************************************************************************)
(* Specification.                                                          *)
(***************************************************************************)
\* The command lines and answers tried.  When the game id is missing the
\* scripts print the usage and exit before looking at any option, so those
\* command lines are tried without options (a source that is missing or does
\* not exist is tried with them); the version is asked for only without
\* --version and without --dry-run, so the other runs get no answer.
CommandLine(gameId, src, versionArg, dryRun, answer) ==
  /\ gameId = NoId => (versionArg = NoVersion /\ ~dryRun)
  /\ (gameId = NoId \/ src = NoSource \/ versionArg # NoVersion \/ dryRun) => answer = ""
  /\ (src # NoSource /\ ~sourceExists(src, play)) => answer = ""

Next ==
  \/ Tick
  \/ /\ Idle /\ runs < MaxRuns
     /\ \E gameId \in Ids \cup {NoId}, src \in SourceIx \cup {NoSource},
           versionArg \in ExplicitVersions \cup {NoVersion}, dryRun \in BOOLEAN,
           answer \in VersionAnswers :
          /\ CommandLine(gameId, src, versionArg, dryRun, answer)
          /\ AddGameStart(gameId, src, versionArg, dryRun, answer)
  \/ AddGameMaterialize
  \/ AddGameBuildPrepare
  \/ AddGameExec
  \/ AddGameInstall
  \/ AddGameHoist
  \/ AddGameResolve
  \/ AddGameThumbnail
  \/ AddGameReconcile
  \/ /\ Idle /\ runs < MaxRuns
     /\ \E gameId \in Ids \cup {NoId}, src \in SourceIx \cup {NoSource},
           versionArg \in ExplicitVersions \cup {NoVersion}, dryRun \in BOOLEAN,
           answer \in VersionAnswers :
          /\ CommandLine(gameId, src, versionArg, dryRun, answer)
          /\ UpdateGameStart(gameId, src, versionArg, dryRun, answer)
  \/ UpdateGameMaterialize
  \/ UpdateGameResolve
  \/ UpdateGameThumbnail
  \/ UpdateGameReconcile
  \/ /\ Idle /\ runs < MaxRuns
     /\ \E gameId \in Ids \cup {NoId}, dryRun \in BOOLEAN, ok \in BOOLEAN :
          RemoveGame(gameId, dryRun, ok)

Spec == Init /\ [][Next]_vars

(***************************************************************************)
(* Inspection of one package: the functions of the pipeline that depend    *)
(* on the package only, applied to every small package.                    *)
(***************************************************************************)
MaxEntries == 3

\* The entries a package is made of.  "game" occurs as a directory with
\* scripts at two depths, as an empty directory and as a plain file, at the top
\* level and inside the folder MyVN.
PackageEntries ==
  { File(<<"index.html">>, 300), File(<<"readme.txt">>, 50),
    File(<<"game", "script.rpy">>, 400), File(<<"game", "script.rpyc">>, 400),
    File(<<"game", "tl", "script.rpy">>, 400),
    File(<<"game">>, 50), Dir(<<"game">>),
    File(<<"MyVN", "game", "script.rpy">>, 400), File(<<"MyVN", "game", "script.rpyc">>, 400),
    File(<<"MyVN", "index.html">>, 300),
    File(<<"MyVN", "game">>, 50), Dir(<<"MyVN", "game">>), Dir(<<"MyVN">>) }

\* No path is both a file and a directory.
WellFormed(t) == \A e, f \in WithParents(t) : e.path = f.path => e = f

\* The entry lists of the archives tried; the directory with the same content
\* holds these entries and the directories above them.
Packages == {t \in SUBSET PackageEntries : Cardinality(t) <= MaxEntries /\ WellFormed(t)}
asZip(t) == [kind |-> "zip", name |-> "package.zip", entries |-> t]
asDirectory(t) == [kind |-> "dir", name |-> "package", entries |-> WithParents(t)]

GivenPackage(t) ==
  [op |-> "package", stage |-> "given", entries |-> t,
   zipPlan |-> NoPlan, dirPlan |-> NoPlan,
   zipDetected |-> "", dirDetected |-> "",
   zipDest |-> NoDir, dirDest |-> NoDir,
   project |-> FALSE, distribution |-> FALSE,
   zipProjectPath |-> NoPath, dirProjectPath |-> NoPath]

\* The files a destination is made of when its entry point is looked for:
\* pages at the root, in the three ranges of the sort order, a script, and a
\* page in a subfolder.
HtmlEntries ==
  { File(<<"2.html">>, 300), File(<<"Play.HTML">>, 300), File(<<"index.html">>, 300),
    File(<<"main.js">>, 900), File(<<"MyVN", "index.html">>, 300) }
Destinations == {WithParents(t) : t \in {x \in SUBSET HtmlEntries : Cardinality(x) <= MaxEntries}}

\* What an operator types at the entry-point prompt (trimmed by prompt()).
PromptAnswers == EntryAnswers \cup {"0", "1", "3", "2x", "Play.HTML", "nope"}

GivenDestination(t) ==
  [op |-> "destination", stage |-> "given", tree |-> t, rootHtmlFiles |-> <<>>,
   prompted |-> FALSE, raw |-> "", entryPoint |-> ""]

\* The files a destination is made of when its thumbnail is looked for:
\* images with and without a name hint, above and below 1000 bytes, at the root
\* and in three folders, and a file that is no image.
ImageEntries ==
  { File(<<"logo.png">>, 900), File(<<"splash.png">>, 2000), File(<<"shot.JPG">>, 2000),
    File(<<"MyVN", "logo.png">>, 1500), File(<<"site", "logo.png">>, 1500),
    File(<<"game", "logo.png">>, 3000), File(<<"logo-icon.png">>, 900),
    File(<<"readme.txt">>, 50) }
ImageTrees == {WithParents(t) : t \in {x \in SUBSET ImageEntries : Cardinality(x) <= MaxEntries}}

\* Two orders in which readdirSync may list the names.
ReaddirOrders ==
  { <<"MyVN", "game", "logo-icon.png", "logo.png", "readme.txt", "shot.JPG", "site", "splash.png">>,
    <<"splash.png", "site", "shot.JPG", "readme.txt", "logo.png", "logo-icon.png", "game", "MyVN">> }

GivenImages(t, order, unreadable) ==
  [op |-> "images", stage |-> "given", tree |-> t, order |-> order,
   unreadable |-> unreadable, thumbnailCandidate |-> [found |-> FALSE, filePath |-> <<>>, ext |-> ""]]

\* At most one file of the tree cannot be stat'ed.
ImageProbes ==
  UNION {{GivenImages(t, order, u) :
            order \in ReaddirOrders,
            u \in {{}} \cup {{e.path} : e \in {x \in t : ~x.dir}}} : t \in ImageTrees}

(***************************************************************************)
(* Discovery of the build output (add-game.mjs lines 826-866).  The names  *)
(* it compares are sequences of characters, so that the string methods     *)
(* are computed and not tabulated.                                         *)
(***************************************************************************)
\* String.prototype.toLowerCase on the letters that occur.
lowerChar(c) ==
  CASE c = "A" -> "a" [] c = "B" -> "b" [] c = "M" -> "m" [] c = "N" -> "n"
    [] c = "V" -> "v" [] c = "W" -> "w" [] c = "Z" -> "z" [] c = "I" -> "i"
    [] c = "P" -> "p" [] OTHER -> c
toLowerCase(s) == [i \in 1..Len(s) |-> lowerChar(s[i])]
startsWith(s, p) == Len(p) <= Len(s) /\ SubSeq(s, 1, Len(p)) = p
endsWith(s, p) == Len(p) <= Len(s) /\ SubSeq(s, Len(s) - Len(p) + 1, Len(s)) = p
includes(s, p) == \E i \in 1..(Len(s) - Len(p) + 1) : SubSeq(s, i, i + Len(p) - 1) = p

\* replace(/\s+/g, '_'): every run of white space becomes one underscore.
RECURSIVE replaceWhitespace(_)
replaceWhitespace(s) ==
  IF s = <<>> THEN <<>>
  ELSE IF s[1] # " " THEN <<s[1]>> \o replaceWhitespace(Tail(s))
  ELSE IF Len(s) > 1 /\ s[2] = " " THEN replaceWhitespace(Tail(s))
  ELSE <<"_">> \o replaceWhitespace(Tail(s))

\* Array.prototype.find: the index of the first element that passes, or 0.
find(seq, Test(_)) ==
  LET hits == {i \in 1..Len(seq) : Test(seq[i])}
  IN IF hits = {} THEN 0 ELSE CHOOSE i \in hits : \A j \in hits : i <= j

\* Line 827: path.basename(projectPath).replace(/\s+/g, '_').toLowerCase().
projectBaseName(name) == toLowerCase(replaceWhitespace(name))

DistsSuffix == <<"-", "d", "i", "s", "t", "s">>
WebMarker == <<"w", "e", "b">>
ZipSuffix == <<".", "z", "i", "p">>

\* Lines 829-831: the first entry of the project's parent directory whose name
\* ends with -dists and, lower-cased, starts with the project's base name.
distBaseDir(parentEntries, name) ==
  find(parentEntries,
       LAMBDA e : /\ endsWith(e.name, DistsSuffix)
                  /\ startsWith(toLowerCase(e.name), projectBaseName(name)))

\* Line 838: the first entry of that directory whose name contains web.
webEntry(distEntries) == find(distEntries, LAMBDA e : includes(e.name, WebMarker))

\* Lines 848-858: what is done with the web entry, by what it is.
webOutputKind(entry) ==
  IF entry.dir THEN "dir"
  ELSE IF endsWith(toLowerCase(entry.name), ZipSuffix) THEN "zip"
  ELSE "other"

\* The web builds a -dists directory can hold.
FreshWebTree == {File(<<"index.html">>, 300), File(<<"splash.png">>, 2000)}
StaleWebTree == {File(<<"index.html">>, 200), File(<<"main.js">>, 900)}
\* a-1.0-web, a-1.0-web.ZIP, webnotes.txt, a-1.0-win.zip
WebDirName == <<"a", "-", "1", ".", "0", "-", "w", "e", "b">>
WebZipName == <<"a", "-", "1", ".", "0", "-", "w", "e", "b", ".", "Z", "I", "P">>
WebNotesName == <<"w", "e", "b", "n", "o", "t", "e", "s", ".", "t", "x", "t">>
WinZipName == <<"a", "-", "1", ".", "0", "-", "w", "i", "n", ".", "z", "i", "p">>
DistEntry(name, dir, tree) == [name |-> name, dir |-> dir, tree |-> tree]
\* What the launcher leaves in the -dists directory it writes.
DistContents ==
  { <<>>,
    <<DistEntry(WinZipName, FALSE, {})>>,
    <<DistEntry(WinZipName, FALSE, {}), DistEntry(WebDirName, TRUE, FreshWebTree)>>,
    <<DistEntry(WinZipName, FALSE, {}), DistEntry(WebZipName, FALSE, FreshWebTree)>>,
    <<DistEntry(WebNotesName, FALSE, {})>> }
\* What a -dists directory of an earlier build or of another game holds.
StaleContent == <<DistEntry(WebDirName, TRUE, StaleWebTree)>>

\* Names in the parent directory of a project: a-1.0-dists, a-0.9-dists,
\* ab-1.0-dists, My_VN-1.0-dists, b-1.0-dists, a-dists.txt
ParentNames ==
  { <<"a", "-", "1", ".", "0", "-", "d", "i", "s", "t", "s">>,
    <<"a", "-", "0", ".", "9", "-", "d", "i", "s", "t", "s">>,
    <<"a", "b", "-", "1", ".", "0", "-", "d", "i", "s", "t", "s">>,
    <<"M", "y", "_", "V", "N", "-", "1", ".", "0", "-", "d", "i", "s", "t", "s">>,
    <<"b", "-", "1", ".", "0", "-", "d", "i", "s", "t", "s">>,
    <<"a", "-", "d", "i", "s", "t", "s", ".", "t", "x", "t">> }
\* The base names of the project directories: a (public/play/a itself) and
\* My VN (the only folder inside the destination).
ProjectNames == { <<"a">>, <<"M", "y", " ", "V", "N">> }
ProjectTree == {Dir(<<"game">>), File(<<"game", "script.rpy">>, 400), File(<<"update.pem">>, 240)}

\* The listings of the parent directory after the launcher returned: at most
\* two entries, in either order.
ParentListings ==
  {<<>>} \cup {<<n>> : n \in ParentNames}
         \cup {l \in ParentNames \X ParentNames : l[1] # l[2]}

\* fresh is the position of the directory the launcher wrote just now, or 0.
GivenOutput(name, listing, fresh, content) ==
  [op |-> "output", stage |-> "given", projectName |-> name,
   parentEntries |-> [i \in 1..Len(listing) |->
                        [name |-> listing[i], fresh |-> (i = fresh),
                         entries |-> IF i = fresh THEN content ELSE StaleContent]],
   dest |-> ExistingDir(ProjectTree),
   distBaseDir |-> 0, webEntry |-> 0, webKind |-> "none"]

\* The launcher writes a directory named <build name>-dists.
OutputProbes ==
  {GivenOutput(x[1], x[2], x[3], x[4]) :
     x \in {y \in ProjectNames \X ParentListings \X (0..2) \X DistContents :
              /\ y[3] <= Len(y[2])
              /\ y[3] > 0 => endsWith(y[2][y[3]], DistsSuffix)
              /\ y[3] = 0 => y[4] = <<>>}}

\* The files a destination is made of when the hoist looks at it: pages and
\* other files at the root, in the folders MyVN and site, and in a folder
\* MyVN inside MyVN; main.js exists at the root and, with another size, in MyVN.
HoistEntries ==
  { File(<<"index.html">>, 300), File(<<"main.js">>, 900), File(<<"readme.txt">>, 50),
    File(<<"MyVN", "index.html">>, 300), File(<<"MyVN", "main.js">>, 700),
    File(<<"MyVN", "MyVN", "index.html">>, 300),
    File(<<"site", "Play.HTML">>, 300), File(<<"site", "readme.txt">>, 50),
    File(<<"site", "MyVN", "index.html">>, 300) }
HoistTrees == {WithParents(t) : t \in {x \in SUBSET HoistEntries : Cardinality(x) <= MaxEntries}}
GivenBuild(t, builtRenpy) ==
  [op |-> "hoist", stage |-> "given", tree |-> t, builtRenpy |-> builtRenpy,
   dest |-> ExistingDir(t)]
HoistProbes == {GivenBuild(t, b) : t \in HoistTrees, b \in BOOLEAN}

(***************************************************************************)
(* extractVersionFromFilename of add-game (lines 321-339) and of           *)
(* update-game (80-96) on names given as sequences of characters.  Every   *)
(* pattern is [_-]v?(<groups of digits joined by dots>)<tail>$ with the    *)
(* flag i; null is the empty sequence.                                     *)
(***************************************************************************)
Digits == {"0", "1", "2", "3", "4", "5", "6", "7", "8", "9"}
isDigits(s) == \A i \in 1..Len(s) : s[i] \in Digits
\* The pieces of s between its dots.
RECURSIVE splitDots(_)
splitDots(s) ==
  IF \A i \in 1..Len(s) : s[i] # "."
    THEN <<s>>
    ELSE LET k == CHOOSE i \in 1..Len(s) : s[i] = "." /\ \A j \in 1..(i - 1) : s[j] # "."
         IN <<SubSeq(s, 1, k - 1)>> \o splitDots(SubSeq(s, k + 1, Len(s)))
\* (\d+\.\d+ ...) with n groups, over the whole of s.
dotted(s, n) ==
  LET parts == splitDots(s)
  IN Len(parts) = n /\ \A i \in 1..n : Len(parts[i]) > 0 /\ isDigits(parts[i])

\* The tails: \.zip$, \.\d*\.zip$ and $.
Pattern(groups, tail) == [groups |-> groups, tail |-> tail]
\* What the group captures when the pattern matches with [_-] at position i.
matchAt(pattern, filename, i) ==
  LET afterSep == SubSeq(filename, i + 1, Len(filename))
      body == IF Len(afterSep) > 0 /\ lowerChar(afterSep[1]) = "v" THEN Tail(afterSep) ELSE afterSep
      stem == SubSeq(body, 1, Len(body) - Len(ZipSuffix))
      parts == splitDots(stem)
      head == SubSeq(stem, 1, Len(stem) - Len(parts[Len(parts)]) - 1)
  IN IF filename[i] \notin {"_", "-"} THEN <<>>
     ELSE CASE pattern.tail = "$" ->
                 IF dotted(body, pattern.groups) THEN body ELSE <<>>
            [] pattern.tail = ".zip$" ->
                 IF endsWith(toLowerCase(body), ZipSuffix) /\ dotted(stem, pattern.groups)
                   THEN stem ELSE <<>>
            [] pattern.tail = ".d*.zip$" ->
                 IF /\ endsWith(toLowerCase(body), ZipSuffix)
                    /\ Len(parts) = pattern.groups + 1
                    /\ isDigits(parts[Len(parts)])
                    /\ dotted(head, pattern.groups)
                   THEN head ELSE <<>>
\* filename.match(pattern): the leftmost match; its group, or null.
match(pattern, filename) ==
  LET hits == {i \in 1..Len(filename) : matchAt(pattern, filename, i) # <<>>}
  IN IF hits = {} THEN <<>>
     ELSE matchAt(pattern, filename, CHOOSE i \in hits : \A j \in hits : i <= j)

\* Lines 323-329 of add-game and 82-86 of update-game.
AddGamePatterns ==
  << Pattern(3, ".zip$"), Pattern(2, ".d*.zip$"), Pattern(1, ".zip$"),
     Pattern(3, "$"), Pattern(2, "$") >>
UpdateGamePatterns == << Pattern(3, ".zip$"), Pattern(2, ".zip$"), Pattern(1, ".zip$") >>

\* The loop over the patterns: the group of the first pattern that matches.
firstMatch(patterns, filename) ==
  LET hits == {k \in 1..Len(patterns) : match(patterns[k], filename) # <<>>}
  IN IF hits = {} THEN <<>>
     ELSE match(patterns[CHOOSE k \in hits : \A j \in hits : k <= j], filename)

\* The names tried: game, a separator or none, v or V or none, a version of
\* one to three groups or none or a malformed one, and .zip, .ZIP or nothing.
NameStem == <<"g", "a", "m", "e">>
NameSeparators == {<<>>, <<"-">>, <<"_">>}
NameLetters == {<<>>, <<"v">>, <<"V">>}
NameVersions == {<<>>, <<"2">>, <<"1", ".", "0">>, <<"1", ".", "2", ".", "3">>, <<"1", ".", "0", ".">>, <<"1", ".", "2", ".", "3", ".", "4">>}
NameExtensions == {<<>>, <<".", "z", "i", "p">>, <<".", "Z", "I", "P">>}
FileNames ==
  {NameStem \o sep \o v \o ver \o ext :
     sep \in NameSeparators, v \in NameLetters, ver \in NameVersions, ext \in NameExtensions}
GivenName(n) ==
  [op |-> "name", stage |-> "given", filename |-> n, addVersion |-> <<>>, updateVersion |-> <<>>]
NameProbes == {GivenName(n) : n \in FileNames}

\* Locations on disk, as the segments of a path below the checkout; the
\* destination of game "a" is public/play/a.
PLAY_DIR == <<"public", "play">>
gameDirOf(id) == PLAY_DIR \o <<id>>

\* path.normalize: "." is dropped and ".." removes the segment before it.
RECURSIVE normalizeInto(_, _)
normalizeInto(acc, rest) ==
  IF rest = <<>> THEN acc
  ELSE IF rest[1] = "." THEN normalizeInto(acc, Tail(rest))
  ELSE IF rest[1] = ".." /\ acc # <<>> /\ acc[Len(acc)] # ".."
         THEN normalizeInto(SubSeq(acc, 1, Len(acc) - 1), Tail(rest))
  ELSE normalizeInto(Append(acc, rest[1]), Tail(rest))

\* path.join(base, relativePath).
pathJoin(base, relativePath) == normalizeInto(<<>>, base \o relativePath)

\* fs.mkdirSync(targetPath, {recursive: true}), or mkdirSync of its dirname
\* followed by writeFileSync: the target and every folder above it that did
\* not exist come into being.
createdBy(targetPath, existing) ==
  {SubSeq(targetPath, 1, k) : k \in 1..Len(targetPath)} \ existing

\* Lines 766-778: where the flatten loop writes the entries of an archive.
\* relativePath is the entry name after "<rootFolder>/", taken as it stands.
flattenTargets(entries, rootFolder, gameDir) ==
  {pathJoin(gameDir, Strip(e.path, 1)) : e \in
     {x \in entries : Len(x.path) >= 2 /\ x.path[1] = rootFolder}}

\* Line 781: zip.extractAllTo(gameDir, true).  The library writes every entry
\* at its canonical name, the name normalized below "/", so that ".." never
\* climbs above the target directory.
RECURSIVE canonicalInto(_, _)
canonicalInto(acc, rest) ==
  IF rest = <<>> THEN acc
  ELSE IF rest[1] = "." THEN canonicalInto(acc, Tail(rest))
  ELSE IF rest[1] = ".."
         THEN canonicalInto(SubSeq(acc, 1, Len(acc) - 1), Tail(rest))
  ELSE canonicalInto(Append(acc, rest[1]), Tail(rest))
canonical(name) == canonicalInto(<<>>, name)
extractAllTargets(entries, gameDir) ==
  {gameDir \o canonical(e.path) : e \in {x \in entries : Len(x.path) > 0}}

\* Lines 747-789 for an archive: the locations the extraction creates.  The
\* destination and the folders above it exist when the extraction starts.
extractionCreates(entries, unpackStructure, gameDir) ==
  LET existing == {SubSeq(gameDir, 1, k) : k \in 0..Len(gameDir)}
      targets == IF unpackStructure.flatten /\ unpackStructure.rootFolder # NoRoot
                   THEN flattenTargets(entries, unpackStructure.rootFolder, gameDir)
                   ELSE extractAllTargets(entries, gameDir)
  IN UNION {createdBy(t, existing) : t \in targets}

\* The entry names of the archives tried: plain names, names with "." and
\* ".." after the top-level folder, and names at the top level.
ArchiveEntries ==
  { File(<<"MyVN", "index.html">>, 300), File(<<"MyVN", "game", "script.rpy">>, 400),
    File(<<"MyVN", ".", "readme.txt">>, 50),
    File(<<"MyVN", "game", "..", "notes.txt">>, 50),
    File(<<"MyVN", "..", "evil.txt">>, 50),
    File(<<"MyVN", "..", "..", "evil.txt">>, 50),
    Dir(<<"MyVN", "..", "other">>),
    File(<<"index.html">>, 300), File(<<"..", "evil.txt">>, 50) }
Archives == {t \in SUBSET ArchiveEntries : t # {} /\ Cardinality(t) <= MaxEntries}
GivenArchive(t) ==
  [op |-> "archive", stage |-> "given", entries |-> t, plan |-> NoPlan, created |-> {}]
ArchiveProbes == {GivenArchive(t) : t \in Archives}

pipeline == <<catalog, play, thumbs, downloads, clock, runs, run, pre, prev, invocations>>

PackageInit ==
  /\ catalog = [d \in Docs |-> <<>>]
  /\ play = [i \in Ids |-> NoDir]
  /\ thumbs = {}
  /\ downloads = {}
  /\ prev = NoPrev
  /\ clock = 1
  /\ runs = 0
  /\ run = IdleRun
  /\ pre = Snapshot
  /\ invocations = [p \in Invocations |-> [run |-> IdleRun, overlapped |-> FALSE]]
  /\ probe \in {GivenPackage(t) : t \in Packages}
                \cup {GivenDestination(t) : t \in Destinations}
                \cup ImageProbes
                \cup OutputProbes
                \cup HoistProbes
                \cup NameProbes
                \cup ArchiveProbes

\* Lines 670-684: the unpack plan of the archive and of the directory.
PlanPackage ==
  /\ probe.op = "package" /\ probe.stage = "given"
  /\ probe' = [probe EXCEPT
                 !.stage = "planned",
                 !.zipPlan = getUnpackStructure(asZip(probe.entries).entries),
                 !.dirPlan = getUnpackStructureFromDir(asDirectory(probe.entries).entries)]
  /\ UNCHANGED pipeline

\* Lines 724-738: what the dry-run report says it detects.
ReportPackage ==
  /\ probe.op = "package" /\ probe.stage = "planned"
  /\ LET zip == asZip(probe.entries).entries
         dir == asDirectory(probe.entries).entries
     IN probe' = [probe EXCEPT
                    !.stage = "reported",
                    !.zipDetected =
                       detected(zipWouldYieldRenpyProject(zip, probe.zipPlan),
                                zipWouldYieldRenpyDistribution(zip, probe.zipPlan)),
                    !.dirDetected =
                       detected(dirWouldYieldRenpyProject(dir, probe.dirPlan),
                                dirWouldYieldRenpyDistribution(dir, probe.dirPlan))]
  /\ UNCHANGED pipeline

\* Lines 747-789: the destination after a complete extraction or copy.
MaterializePackage ==
  /\ probe.op = "package" /\ probe.stage = "reported"
  /\ probe' = [probe EXCEPT
                 !.stage = "materialized",
                 !.zipDest = ExistingDir(materialized(asZip(probe.entries), probe.zipPlan)),
                 !.dirDest = ExistingDir(materialized(asDirectory(probe.entries), probe.dirPlan))]
  /\ UNCHANGED pipeline

\* renpy-utils: what the copied directory is taken for, and line 792: the
\* project the real run finds in the destination and builds.
DetectPackage ==
  /\ probe.op = "package" /\ probe.stage = "materialized"
  /\ probe' = [probe EXCEPT
                 !.stage = "detected",
                 !.project = dirHasRenpyGame(probe.dirDest.tree, <<>>),
                 !.distribution = dirHasRenpyDistribution(probe.dirDest.tree, <<>>),
                 !.zipProjectPath = findRenpyProjectRoot(probe.zipDest),
                 !.dirProjectPath = findRenpyProjectRoot(probe.dirDest)]
  /\ UNCHANGED pipeline

\* Line 873: the candidates for the entry point.
ListRootHtml ==
  /\ probe.op = "destination" /\ probe.stage = "given"
  /\ LET rootHtmlFiles == getRootHtmlFiles(ExistingDir(probe.tree))
     IN probe' = [probe EXCEPT
                    !.stage = IF Len(rootHtmlFiles) = 0 THEN "nohtml" ELSE "listed",
                    !.rootHtmlFiles = rootHtmlFiles]
  /\ UNCHANGED pipeline

\* Lines 892-911: the sole candidate, or the one the operator's answer selects.
SelectEntryPoint ==
  /\ probe.op = "destination" /\ probe.stage = "listed"
  /\ IF Len(probe.rootHtmlFiles) = 1
       THEN probe' = [probe EXCEPT !.stage = "resolved",
                                   !.entryPoint = probe.rootHtmlFiles[1]]
       ELSE \E raw \in PromptAnswers :
              probe' = [probe EXCEPT
                          !.stage = "resolved", !.prompted = TRUE, !.raw = raw,
                          !.entryPoint = chooseEntryPoint(probe.rootHtmlFiles, raw)]
  /\ UNCHANGED pipeline

\* Line 915: the thumbnail candidate of the destination.
SelectThumbnail ==
  /\ probe.op = "images" /\ probe.stage = "given"
  /\ probe' = [probe EXCEPT
                 !.stage = "selected",
                 !.thumbnailCandidate =
                    firstThumbnailCandidate(probe.tree, probe.order, probe.unreadable)]
  /\ UNCHANGED pipeline

\* Lines 826-843: look for the -dists directory and the web entry in it; the
\* destination is removed when one of them is not found.
DiscoverOutput ==
  /\ probe.op = "output" /\ probe.stage = "given"
  /\ LET d == distBaseDir(probe.parentEntries, probe.projectName)
     IN IF d = 0
          THEN probe' = [probe EXCEPT !.stage = "nodists", !.dest = NoDir]
          ELSE LET distEntries == probe.parentEntries[d].entries
                   w == webEntry(distEntries)
               IN IF w = 0
                    THEN probe' = [probe EXCEPT !.stage = "noweb", !.distBaseDir = d,
                                                !.dest = NoDir]
                    ELSE probe' = [probe EXCEPT
                                     !.stage = "found", !.distBaseDir = d, !.webEntry = w,
                                     !.webKind = webOutputKind(distEntries[w])]
  /\ UNCHANGED pipeline

\* Lines 844-866: stage the web entry and replace the destination with it; an
\* entry that is neither a directory nor a .zip removes the destination.
InstallOutput ==
  /\ probe.op = "output" /\ probe.stage = "found"
  /\ LET entry == probe.parentEntries[probe.distBaseDir].entries[probe.webEntry]
         staged == IF probe.webKind = "dir"
                     THEN copyDirContents(entry.tree, {})
                     ELSE extractAllTo(entry.tree)
     IN IF probe.webKind = "other"
          THEN probe' = [probe EXCEPT !.stage = "badweb", !.dest = NoDir]
          ELSE probe' = [probe EXCEPT !.stage = "installed",
                                      !.dest = replaceDestination(probe.dest, staged)]
  /\ UNCHANGED pipeline

\* Lines 868-871: the hoist, after a build only.
HoistDestination ==
  /\ probe.op = "hoist" /\ probe.stage = "given"
  /\ probe' = [probe EXCEPT
                 !.stage = "hoisted",
                 !.dest = IF probe.builtRenpy THEN flattenHtmlSubdirIfNeeded(probe.dest)
                                              ELSE probe.dest]
  /\ UNCHANGED pipeline

\* extractVersionFromFilename of both scripts on the same name.
ExtractVersion ==
  /\ probe.op = "name" /\ probe.stage = "given"
  /\ probe' = [probe EXCEPT
                 !.stage = "extracted",
                 !.addVersion = firstMatch(AddGamePatterns, probe.filename),
                 !.updateVersion = firstMatch(UpdateGamePatterns, probe.filename)]
  /\ UNCHANGED pipeline

\* Lines 670-672 and 762-789: the extraction of an archive into public/play/a.
ExtractArchive ==
  /\ probe.op = "archive" /\ probe.stage = "given"
  /\ LET plan == getUnpackStructure(probe.entries)
     IN probe' = [probe EXCEPT
                    !.stage = "extracted",
                    !.plan = plan,
                    !.created = extractionCreates(probe.entries, plan, gameDirOf("a"))]
  /\ UNCHANGED pipeline

PackageNext ==
  \/ PlanPackage
  \/ ReportPackage
  \/ MaterializePackage
  \/ DetectPackage
  \/ ListRootHtml
  \/ SelectEntryPoint
  \/ SelectThumbnail
  \/ DiscoverOutput
  \/ InstallOutput
  \/ HoistDestination
  \/ ExtractVersion
  \/ ExtractArchive

PackageSpec == PackageInit /\ [][PackageNext]_vars

(***************************************************************************)
(* Two add-game processes on the same checkout.  Each is main() cut at its *)
(* accesses to the catalog document: up to readMetadata, from there to the *)
(* thumbnail copy, and the modification and writeMetadata.  Both are given *)
(* --version and GAME_NAME, GAME_TYPE or GAME_DESCRIPTION or empty answers.*)
(***************************************************************************)
\* The packages tried: a static site, a folder without a page, a site with two pages.
ConcurrentSources == {1, 5, 6}

ConcurrentInit ==
  /\ \E seeded \in BOOLEAN :
       /\ catalog = [d \in Docs |-> IF seeded /\ d = "yaml"
                                     THEN <<DescribedEntry("a")>> ELSE <<>>]
       /\ play = [i \in Ids |-> IF seeded /\ i = "a" THEN ExistingDir(StaticTree) ELSE NoDir]
       /\ thumbs = IF seeded THEN {thumbnailPathOf("a", ".jpg")} ELSE {}
  /\ downloads = {}
  /\ prev = NoPrev
  /\ clock = 1
  /\ runs = 0
  /\ run = IdleRun
  /\ pre = Snapshot
  /\ probe = NoProbe
  /\ invocations = [p \in Invocations |-> [run |-> IdleRun, overlapped |-> FALSE]]

InProgress(p) == invocations[p].run.pc \notin {"idle", "done"}

\* A variant of documentToModify that takes the document as it is when the
\* run comes to write.
documentReadAtWrite(r, current) == current

\* Lines 958-971: the object modified and written is the one readMetadata
\* returned at line 707.
documentToModify(r, current) == r.metadata

\* Lines 637-718: arguments, source, unpack plan, version, readMetadata.
InvocationRead(p, gameId, src) ==
  /\ invocations[p].run.pc = "idle"
  /\ LET source == Sources[src]
         unpackStructure == IF source.kind = "dir"
                              THEN getUnpackStructureFromDir(source.entries)
                              ELSE getUnpackStructure(source.entries)
         metadata == catalog[METADATA_FILE("add")]
         r == [IdleRun EXCEPT
                 !.pc = "materialize", !.cmd = "add", !.gameId = gameId, !.src = src,
                 !.versionArg = "2.0.0", !.finalVersion = "2.0.0",
                 !.unpackStructure = unpackStructure,
                 !.metadata = metadata, !.read = TRUE,
                 !.existingGameIndex = findIndex(metadata, gameId)]
     IN invocations' =
          [q \in Invocations |->
             IF q = p THEN [run |-> r, overlapped |-> \E o \in Invocations \ {p} : InProgress(o)]
             ELSE IF InProgress(q) THEN [invocations[q] EXCEPT !.overlapped = TRUE]
             ELSE invocations[q]]
  /\ UNCHANGED <<catalog, play, thumbs, downloads, clock, runs, run, pre, prev, probe>>

\* Lines 747-924 for a package without a Ren'Py project: clear and fill the
\* destination, select the entry point, copy the thumbnail.
InvocationIngest(p) ==
  /\ invocations[p].run.pc = "materialize"
  /\ LET r == invocations[p].run
         dest == ExistingDir(materialized(Sources[r.src], r.unpackStructure))
         rootHtmlFiles == getRootHtmlFiles(dest)
         candidates == findThumbnailCandidate(dest)
         end(q) == invocations' = [invocations EXCEPT ![p].run = q]
     IN \E io \in {"ok", "copy", "thumbnail"} :
          IF io = "copy"
            THEN /\ play' = [play EXCEPT ![r.gameId] = NoDir]
                 /\ end(Exit([r EXCEPT !.created = TRUE], 1, "copy"))
                 /\ UNCHANGED thumbs
          ELSE IF Len(rootHtmlFiles) = 0
            THEN /\ play' = [play EXCEPT ![r.gameId] = dest]
                 /\ end(Exit([r EXCEPT !.created = TRUE], 1, "nohtml"))
                 /\ UNCHANGED thumbs
          ELSE \E raw \in EntryAnswers :
                 /\ Len(rootHtmlFiles) = 1 => raw = ""
                 /\ play' = [play EXCEPT ![r.gameId] = dest]
                 /\ LET r1 == [r EXCEPT
                                 !.created = TRUE,
                                 !.prompted = Len(rootHtmlFiles) > 1,
                                 !.entryPoint = IF Len(rootHtmlFiles) = 1 THEN rootHtmlFiles[1]
                                                ELSE chooseEntryPoint(rootHtmlFiles, raw)]
                    IN IF candidates = {}
                         THEN /\ io = "ok"
                              /\ end([r1 EXCEPT !.pc = "reconcile"])
                              /\ UNCHANGED thumbs
                       ELSE IF io = "thumbnail"
                         THEN /\ end(Exit(r1, 1, "thumbio"))
                              /\ UNCHANGED thumbs
                       ELSE \E c \in candidates :
                              /\ thumbs' = thumbs \cup
                                   {thumbnailPathOf(r.gameId, extname(BaseName(c)))}
                              /\ end([r1 EXCEPT
                                        !.pc = "reconcile",
                                        !.thumbnailCandidate =
                                           [found |-> TRUE, ext |-> extname(BaseName(c))]])
  /\ UNCHANGED <<catalog, downloads, clock, runs, run, pre, prev, probe>>

\* Lines 926-972: push or update in the document that was read, write it.
InvocationWrite(p) ==
  /\ invocations[p].run.pc = "reconcile"
  /\ \E details \in Details, ok \in BOOLEAN :
       LET r == [invocations[p].run EXCEPT
                   !.today = clock,
                   !.metadata = documentToModify(invocations[p].run, catalog[METADATA_FILE("add")])]
           written == reconcile(r, details, "html", clock)
       IN IF ok
            THEN /\ catalog' = [catalog EXCEPT ![METADATA_FILE("add")] = written]
                 /\ invocations' = [invocations EXCEPT ![p].run =
                                      Exit([r EXCEPT !.metadata = written, !.wrote = TRUE], 0, "")]
            ELSE /\ UNCHANGED catalog
                 /\ invocations' = [invocations EXCEPT ![p].run = Exit(r, 1, "write")]
  /\ UNCHANGED <<play, thumbs, downloads, clock, runs, run, pre, prev, probe>>

ConcurrentNext ==
  \E p \in Invocations :
    \/ \E gameId \in Ids, src \in ConcurrentSources : InvocationRead(p, gameId, src)
    \/ InvocationIngest(p)
    \/ InvocationWrite(p)

ConcurrentSpec == ConcurrentInit /\ [][ConcurrentNext]_vars


(***************************************************************************)
(* Properties.                                                             *)
(***************************************************************************)
Done == run.pc = "done"
\* The document the current invocation reads and writes, now and when it began.
gamesNow == catalog[METADATA_FILE(run.cmd)]
gamesBefore == pre.catalog[METADATA_FILE(run.cmd)]
entriesOf(list, gameId) == {i \in 1..Len(list) : list[i].id = gameId}
destination == play[run.gameId]
\* An add-game or update-game invocation that got past its arguments.
Ingesting == run.cmd \in {"add", "update"} /\ run.gameId # NoId /\ run.src # NoSource
\* The ways the external-tool step of add-game ends a run.
ExternalToolFailures ==
  {"nosdk", "nowebsupport", "nolauncher", "build", "nodists", "noweb", "badweb"}

C2_NoEntryAfterBuildFailure ==
  (Done /\ run.cmd = "add" /\ run.failure = "build") =>
    /\ entriesOf(gamesNow, run.gameId) = {}
    /\ ~destination.exists

\* C2 amended: when the build subprocess fails in a run for id X, the destination
\* of X does not exist afterwards (also when it existed before the run), and the
\* catalog is as it was before the run: it has an entry for X exactly when it had
\* one before.
C2_BuildFailureRollsBack ==
  (Done /\ run.cmd = "add" /\ run.failure = "build") =>
    /\ ~destination.exists
    /\ gamesNow = gamesBefore
    /\ (entriesOf(gamesNow, run.gameId) = {}) <=> (entriesOf(gamesBefore, run.gameId) = {})

\* The build failed in a run for an id whose destination held old content.
C2_Witness ==
  /\ Done /\ run.cmd = "add" /\ run.failure = "build"
  /\ pre.play[run.gameId].exists
  /\ ~destination.exists

\* Two successful runs of the same script in sequence, for the same id, the same
\* source and the same explicit --version.
TwoRuns ==
  /\ Done /\ Ingesting /\ run.exitCode = 0 /\ ~run.dryRun
  /\ prev.committed
  /\ prev.cmd = run.cmd /\ prev.gameId = run.gameId /\ prev.src = run.src
  /\ prev.versionArg = run.versionArg /\ run.versionArg # NoVersion

C4_ThumbnailKept ==
  (Done /\ Ingesting /\ run.wrote /\ run.existingGameIndex # 0) =>
    gamesNow[run.existingGameIndex].thumbnail =
      IF run.thumbnailCandidate.found
        THEN thumbnailPathOf(run.gameId, run.thumbnailCandidate.ext)
        ELSE gamesBefore[run.existingGameIndex].thumbnail

\* An update of an entry whose stored thumbnail is not the default .png path, by
\* a run that found no image.
C4_Witness ==
  /\ Done /\ Ingesting /\ run.wrote /\ run.existingGameIndex # 0
  /\ ~run.thumbnailCandidate.found
  /\ gamesBefore[run.existingGameIndex].thumbnail # thumbnailPathOf(run.gameId, ".png")
  /\ gamesNow[run.existingGameIndex].version # gamesBefore[run.existingGameIndex].version

\* C5: when a Ren'Py project was detected and an external-tool step fails (no
\* SDK, no web support, no launcher, the subprocess fails or times out, no *-dists
\* directory, no web entry in it, a web entry that is neither a directory nor a
\* .zip), the run exits non-zero, the destination does not exist afterwards and
\* the catalog was not written.
C5_ExternalToolFailureCleansUp ==
  (Done /\ run.cmd = "add" /\ run.failure \in ExternalToolFailures) =>
    /\ run.project.found
    /\ run.exitCode # 0
    /\ ~destination.exists
    /\ ~run.wrote
    /\ catalog = pre.catalog

\* The web entry was neither a directory nor a .zip, in a run for an id whose
\* destination existed before.
C5_Witness ==
  /\ Done /\ run.cmd = "add" /\ run.failure = "badweb"
  /\ run.spawned
  /\ pre.play[run.gameId].exists
  /\ ~destination.exists

C7_ExceptionRemovesDestination ==
  (Done /\ run.cmd = "add" /\ ~run.dryRun /\ run.created /\ ~run.wrote
     /\ run.failure \in {"installio", "hoistio", "thumbio"}) =>
    ~destination.exists

C9_IdsUnique ==
  \A d \in Docs : \A i, j \in 1..Len(catalog[d]) :
    catalog[d][i].id = catalog[d][j].id => i = j

\* A run has just added a second entry to a document.
C9_Witness ==
  /\ Done /\ run.wrote /\ run.existingGameIndex = 0
  /\ Len(gamesNow) = 2
  /\ Len(gamesBefore) = 1

\* C10 as stated: the plan of a package has flatten = true, with the entry's name
\* as root folder, exactly when the package has one top-level entry and that
\* entry is a directory; for zip and directory sources alike.
C10_FlattenIffSingleDirectory ==
  (run.cmd = "add" /\ run.gameId # NoId /\ run.src # NoSource) =>
    LET top == readdir(WithParents(Sources[run.src].entries), <<>>)
        single == Cardinality(top) = 1 /\ \A e \in top : e.dir
    IN /\ run.unpackStructure.flatten <=> single
       /\ single => \A e \in top : run.unpackStructure.rootFolder = BaseName(e)


\* The build step of add-game has ended: the launcher returned and the run
\* goes on to look for the web output, or it failed or timed out and the run ended.
BuildStepEnded ==
  run.cmd = "add" /\ run.spawned
  /\ (run.pc = "install" \/ (Done /\ run.failure = "build"))

\* C14: on every way out of the build step (the launcher succeeded, failed or
\* timed out), each icon file that was renamed to <name>.bak before the launcher
\* was started is back under its own name in the project.
C14_IconsRestoredOnEveryExit ==
  BuildStepEnded =>
    \A n \in run.hiddenIcons :
      /\ destination.exists
      /\ \E e \in destination.tree : e.path = run.project.path \o <<n>> /\ ~e.dir

\* The destination as the install step left it, before the hoist.
preHoist ==
  ExistingDir(IF run.webKind = "dir"
                THEN copyDirContents(run.webTree, {})
                ELSE extractAllTo(run.webTree))

\* C15: when a step of the hoist fails, the destination is as it was before
\* the hoist or it is fully hoisted; it is never left with the subdirectory
\* removed and its content not, or only partly, back at the root.
C15_HoistIsAtomic ==
  (Done /\ run.cmd = "add" /\ run.failure = "hoistio") =>
    destination \in {preHoist, flattenHtmlSubdirIfNeeded(preHoist)}

\* The destination when the entry point is looked for: the web build, hoisted
\* if need be, when a project was built, else the materialized package.
resolvedDestination ==
  IF run.builtRenpy
    THEN flattenHtmlSubdirIfNeeded(preHoist)
    ELSE ExistingDir(materialized(Sources[run.src], run.unpackStructure))

\* The directory d of the tree has game/ with a .rpyc file and no .rpy file.
compiledOnly(tree, d) ==
  /\ \E e \in tree : e.path = d \o <<"game">> /\ e.dir
  /\ \E f \in tree : ~f.dir /\ Len(f.path) > Len(d) + 1
                     /\ SubSeq(f.path, 1, Len(d) + 1) = d \o <<"game">>
                     /\ extname(f.path[Len(f.path)]) = ".rpyc"
  /\ ~\E f \in tree : ~f.dir /\ Len(f.path) > Len(d) + 1
                      /\ SubSeq(f.path, 1, Len(d) + 1) = d \o <<"game">>
                      /\ extname(f.path[Len(f.path)]) = ".rpy"

\* The tree, or its only subdirectory, is compiled only.
distributionShape(tree) ==
  \/ compiledOnly(tree, <<>>)
  \/ LET subdirs == {e \in tree : e.dir /\ Len(e.path) = 1}
     IN Cardinality(subdirs) = 1 /\ \A s \in subdirs : compiledOnly(tree, s.path)

\* C18: when add-game finds no .html file at the destination root, it reports
\* the compiled-distribution error exactly when the destination, or its only
\* subdirectory, has game/ with a .rpyc file and no .rpy file, and the
\* no-playable-content error otherwise; either way the catalog is not written
\* and the exit code is not 0.
C18_NoHtmlErrorKind ==
  (Done /\ run.cmd = "add" /\ run.failure \in {"distribution", "nohtml"}) =>
    /\ Len(getRootHtmlFiles(resolvedDestination)) = 0
    /\ run.failure = "distribution" <=> distributionShape(resolvedDestination.tree)
    /\ ~run.wrote
    /\ catalog = pre.catalog
    /\ run.exitCode # 0

\* The directory with the compiled game inside a folder, next to a readme: the
\* distribution is found in the only subdirectory of the destination.
C18_Witness ==
  /\ Done /\ run.cmd = "add" /\ run.failure = "distribution"
  /\ Sources[run.src].entries = NestedDistTree
  /\ ~compiledOnly(resolvedDestination.tree, <<>>)

\* The fields of an entry that a re-ingestion may overwrite.
ProducedFields == {"version", "lastUpdated", "entryPoint", "thumbnail"}

\* C20: when an add-game run updates the existing entry of its id, the catalog
\* keeps its length and order, every other entry is as before, the updated
\* entry has the same fields as before and differs at most in version,
\* lastUpdated, entryPoint and thumbnail, and its thumbnail differs only if
\* the run found a candidate.
C20_UpdateTouchesProducedFieldsOnly ==
  (Done /\ run.cmd = "add" /\ run.wrote /\ run.existingGameIndex # 0) =>
    LET i == run.existingGameIndex
    IN /\ Len(gamesNow) = Len(gamesBefore)
       /\ \A j \in 1..Len(gamesBefore) : j # i => gamesNow[j] = gamesBefore[j]
       /\ gamesBefore[i].id = run.gameId
       /\ DOMAIN gamesNow[i] = DOMAIN gamesBefore[i]
       /\ \A f \in DOMAIN gamesBefore[i] \ ProducedFields : gamesNow[i][f] = gamesBefore[i][f]
       /\ ~run.thumbnailCandidate.found => gamesNow[i].thumbnail = gamesBefore[i].thumbnail

\* An update, in a catalog of several entries, that changed the version and
\* the entry point of an entry whose name is not its id.
C20_Witness ==
  /\ Done /\ run.cmd = "add" /\ run.wrote /\ run.existingGameIndex # 0
  /\ Len(gamesBefore) > 1
  /\ gamesBefore[run.existingGameIndex].name # run.gameId
  /\ gamesNow[run.existingGameIndex].version # gamesBefore[run.existingGameIndex].version
  /\ gamesNow[run.existingGameIndex].entryPoint # gamesBefore[run.existingGameIndex].entryPoint

\* C21: in a run that is not a dry run, once the catalog has been read the
\* only step left is the one that modifies and writes it: a run that has read
\* the catalog and has not ended is about to reconcile, with materialization,
\* build, entry-point selection and thumbnail copy behind it.
C21_ReadImmediatelyBeforeWrite ==
  (Ingesting /\ ~run.dryRun /\ run.read /\ ~Idle) => run.pc = "reconcile"

\* A successful ingestion that directly follows the removal of its id.
ReingestedAfterRemoval ==
  /\ Done /\ Ingesting /\ run.wrote
  /\ prev.cmd = "remove" /\ prev.committed /\ prev.gameId = run.gameId

\* C23: an ingestion run for an id that remove-game has just deleted is a
\* fresh insert: the run found no entry with the id and appended one, keeping
\* the entries that were there.
C23_FreshInsertAfterRemoval ==
  ReingestedAfterRemoval =>
    /\ run.existingGameIndex = 0
    /\ Len(gamesNow) = Len(gamesBefore) + 1
    /\ \A i \in 1..Len(gamesBefore) : gamesNow[i] = gamesBefore[i]
    /\ gamesNow[Len(gamesNow)].id = run.gameId

\* A remove-game run that ended with success.
Removed == Done /\ run.cmd = "remove" /\ ~run.dryRun /\ run.exitCode = 0

\* C24: after a successful remove-game run for an id there is no destination
\* directory of the id, no downloads copy, no thumbnail file of the id, and no
\* catalog entry with the id.
C24_NothingLeftAfterRemoval ==
  Removed =>
    /\ ~play[run.gameId].exists
    /\ run.gameId \notin downloads
    /\ \A t \in thumbs : t[1] # run.gameId
    /\ \A d \in Docs : entriesOf(catalog[d], run.gameId) = {}

\* An ingestion that ended with success and was given --version.
CommittedWithVersion ==
  Done /\ Ingesting /\ ~run.dryRun /\ run.exitCode = 0 /\ run.versionArg # NoVersion
\* The names of the files directly at the destination root.
rootFileNames == {BaseName(e) : e \in {x \in readdir(destination.tree, <<>>) : ~x.dir}}

\* C25: after an ingestion that ended with success with --version V, the
\* destination directory of the id exists, the catalog has an entry for the id
\* with version V whose entryPoint is a file directly at the destination root,
\* after update-game the downloads copy exists, and when index.html is the
\* only .html file at the root the entryPoint is index.html.
C25_CommittedRunLeavesPlayableGame ==
  CommittedWithVersion =>
    /\ destination.exists
    /\ entriesOf(gamesNow, run.gameId) # {}
    /\ \A i \in entriesOf(gamesNow, run.gameId) :
         /\ gamesNow[i].version = run.versionArg
         /\ gamesNow[i].entryPoint \in rootFileNames
         /\ {n \in rootFileNames : extname(n) = ".html"} = {"index.html"}
              => gamesNow[i].entryPoint = "index.html"
    /\ run.cmd = "update" => run.gameId \in downloads

\* update-game inserted a new id from an archive whose name carries no version.
C25_Witness ==
  /\ CommittedWithVersion /\ run.cmd = "update"
  /\ entriesOf(gamesBefore, run.gameId) = {}
  /\ run.gameId \notin pre.downloads
  /\ \E i \in entriesOf(gamesNow, run.gameId) : gamesNow[i].entryPoint = "index.html"

\* An add-game or update-game run that was given no game id, or no source
\* path, or a source path that does not exist.
InputRejected == Done /\ run.cmd \in {"add", "update"} /\ (run.gameId = NoId \/ run.src = NoSource)

\* C26: such a run exits non-zero; it has not read or written the catalog,
\* has not created, cleared or deleted a destination directory, has copied no
\* thumbnail and no download, has started no build and has asked nothing.
C26_InputErrorChangesNothing ==
  InputRejected =>
    /\ run.exitCode # 0
    /\ ~run.read /\ ~run.wrote /\ catalog = pre.catalog
    /\ ~run.created /\ play = pre.play
    /\ thumbs = pre.thumbs /\ downloads = pre.downloads
    /\ ~run.spawned /\ ~run.prompted

\* add-game --dry-run for an id whose destination exists, with a source path
\* that does not exist.
C26_Witness ==
  /\ InputRejected /\ run.cmd = "add" /\ run.dryRun
  /\ run.gameId # NoId /\ pre.play[run.gameId].exists

\* C27: in every state of every add-game run whose source path is the
\* destination directory of an id, that directory is as it was when the run
\* began: the run changes nothing of the source it was given.
C27_SourceNeverModified ==
  (run.cmd = "add" /\ run.gameId # NoId /\ run.src # NoSource /\ Sources[run.src].at # "") =>
    play[Sources[run.src].at] = pre.play[Sources[run.src].at]

\* C28: in every state, every entry of either catalog document is playable
\* exactly when its type is not download-only; this covers the entries as
\* inserted and as they are after later updates.
C28_PlayableUnlessDownloadOnly ==
  \A d \in Docs : \A i \in 1..Len(catalog[d]) :
    catalog[d][i].playable <=> catalog[d][i].type # "download-only"

\* An update, on a later day, of an entry that was inserted as download-only.
C28_Witness ==
  /\ Done /\ Ingesting /\ run.wrote /\ run.existingGameIndex # 0
  /\ gamesNow[run.existingGameIndex].type = "download-only"
  /\ ~gamesNow[run.existingGameIndex].playable
  /\ gamesNow[run.existingGameIndex].lastUpdated > gamesBefore[run.existingGameIndex].lastUpdated

\* An add-game run that is not a dry run and got past its arguments.
RealRun == run.cmd = "add" /\ ~run.dryRun /\ run.gameId # NoId /\ run.src # NoSource
Building == run.pc \in {"build", "exec", "install", "hoist"}

\* C29: in every state of an add-game run that is not a dry run: before the
\* destination is materialized nothing else has happened; the build steps come
\* after materialization, before the entry point is resolved, and go beyond
\* detection only for a detected project; the thumbnail and the
\* reconciliation come after the entry point is resolved; the catalog is
\* written only in the step that ends the run with success, after the entry
\* point was resolved; and as long as the run has not written, whether it goes
\* on or has ended in an error, the catalog documents are as they were before
\* the run.
C29_StepsInOrderOneWrite ==
  RealRun =>
    /\ run.pc = "materialize" => (~run.created /\ ~run.spawned /\ run.entryPoint = "")
    /\ Building => (run.created /\ run.entryPoint = "" /\ ~run.thumbnailCandidate.found)
    /\ (run.pc \in {"exec", "install", "hoist"} \/ run.spawned \/ run.builtRenpy)
         => (run.created /\ run.project.found)
    /\ run.pc = "resolve" => (run.created /\ run.entryPoint = "")
    /\ run.pc \in {"thumbnail", "reconcile"} => (run.created /\ run.entryPoint # "")
    /\ run.thumbnailCandidate.found => run.entryPoint # ""
    /\ run.wrote => (Done /\ run.exitCode = 0 /\ run.created /\ run.entryPoint # "")
    /\ (Done /\ run.exitCode = 0) => run.wrote
    /\ ~run.wrote => catalog = pre.catalog
    /\ (Done /\ run.exitCode # 0) => catalog = pre.catalog

\* A run for an id that has an entry, ended by a build failure.
C29_Witness ==
  /\ RealRun /\ Done /\ run.failure = "build" /\ run.spawned
  /\ entriesOf(gamesBefore, run.gameId) # {}
  /\ gamesNow = gamesBefore

\* C34: an add-game run whose destination holds no image goes on to the
\* modification of the catalog with no file copied into the thumbnails
\* directory; it never ends with a thumbnail error; when it commits, nothing
\* was added to the thumbnails directory and an entry it inserted has the
\* thumbnail path /images/games/<id>.png.
NoCandidate == findThumbnailCandidate(destination) = {}
C34_NoThumbnailIsNotFatal ==
  RealRun =>
    /\ run.failure = "thumbio" => ~NoCandidate
    /\ (run.pc = "reconcile" /\ NoCandidate) =>
         (~run.thumbnailCandidate.found /\ thumbs = pre.thumbs)
    /\ (Done /\ run.exitCode = 0 /\ NoCandidate) =>
         /\ run.wrote
         /\ thumbs = pre.thumbs
         /\ entriesOf(gamesBefore, run.gameId) = {} =>
              \A i \in entriesOf(gamesNow, run.gameId) :
                gamesNow[i].thumbnail = thumbnailPathOf(run.gameId, ".png")
C34_Witness ==
  /\ RealRun /\ Done /\ run.exitCode = 0 /\ NoCandidate
  /\ entriesOf(gamesBefore, run.gameId) = {}
  /\ entriesOf(gamesNow, run.gameId) # {}
  /\ thumbnailPathOf(run.gameId, ".png") \notin thumbs

\* An add-game invocation that got past its arguments, and the state in
\* which its version has just been determined.
AddRun == run.cmd = "add" /\ run.gameId # NoId /\ run.src # NoSource
VersionDetermined == AddRun /\ (run.pc = "materialize" \/ (Done /\ run.dryRun))
sourceName == Sources[run.src].name
\* The name of what is copied or extracted: the archive, the directory, or the
\* only folder inside the directory when the plan flattens it.
copiedName ==
  IF Sources[run.src].kind = "dir" /\ run.unpackStructure.flatten
    THEN run.unpackStructure.rootFolder
    ELSE sourceName
versionBy(name) ==
  IF run.versionArg # NoVersion THEN run.versionArg
  ELSE IF extractVersionFromFilename("add", name) # NoVersion
    THEN extractVersionFromFilename("add", name)
  ELSE IF run.dryRun THEN "1.0.0"
  ELSE IF run.versionAnswer = "" THEN "1.0.0" ELSE run.versionAnswer
promptBy(name) ==
  run.versionArg = NoVersion /\ extractVersionFromFilename("add", name) = NoVersion /\ ~run.dryRun

\* C35: the version of a run is the --version value when given; else the
\* version in the name of the source file or directory; else, when the run is
\* not a dry run, the operator's answer, 1.0.0 when it is empty; else 1.0.0.
\* The operator is asked for a version in the third case only.
C35_VersionPrecedence ==
  VersionDetermined =>
    /\ run.finalVersion = versionBy(sourceName)
    /\ run.prompted <=> promptBy(sourceName)

\* C35, amended: the same with the name of what is copied in place of the name
\* of the source: for a directory whose only entry is a folder, the name of that
\* folder.
C35_VersionPrecedenceOfCopiedName ==
  VersionDetermined =>
    /\ run.finalVersion = versionBy(copiedName)
    /\ run.prompted <=> promptBy(copiedName)
    /\ (Done /\ run.exitCode = 0 /\ ~run.dryRun) =>
         \A i \in entriesOf(gamesNow, run.gameId) : gamesNow[i].version = run.finalVersion
C35_Witness ==
  /\ VersionDetermined /\ ~run.dryRun
  /\ extractVersionFromFilename("add", sourceName) # NoVersion
  /\ copiedName # sourceName
  /\ run.prompted /\ run.versionAnswer = "" /\ run.finalVersion = "1.0.0"

\* C40: every temporary staging directory a run has created, the staging
\* directory of the web output and that of the hoist, is gone when the run has
\* ended, on success and on every failure after its creation.
C40_StagingRemovedAtExit ==
  Done => run.tmp.present = {}
\* A run that staged the web output, installed it, and failed while hoisting.
C40_Witness ==
  /\ Done /\ RealRun /\ run.failure = "hoistio" /\ run.builtRenpy
  /\ run.tmp.created = {tmpDir, tmpFlat}
  /\ run.tmp.present = {}

(***************************************************************************)
(* Properties of two processes side by side.                               *)
(***************************************************************************)
\* Both processes ended with success, for two different ids that were new
\* when each read the catalog.
BothCommitted ==
  /\ \A p \in Invocations :
       /\ invocations[p].run.pc = "done" /\ invocations[p].run.exitCode = 0
       /\ invocations[p].run.existingGameIndex = 0
  /\ invocations["first"].run.gameId # invocations["second"].run.gameId
Listed(p) == entriesOf(catalog["yaml"], invocations[p].run.gameId) # {}

\* C22: when two add-game processes for two different new ids both end with
\* success, the catalog holds both entries if neither was started while the
\* other was running; if one was, the catalog holds the entry of exactly one of
\* them, and nothing else of the catalog is affected.
C22_OneAfterTheOtherKeepsBoth ==
  BothCommitted =>
    /\ (\A p \in Invocations : ~invocations[p].overlapped) => \A p \in Invocations : Listed(p)
    /\ (\E p \in Invocations : invocations[p].overlapped) =>
         \E p \in Invocations : Listed(p) /\ \A q \in Invocations \ {p} : ~Listed(q)

\* Both ended with success and the entry of the first to write is gone.
C22_Witness ==
  /\ BothCommitted
  /\ \E p \in Invocations : ~Listed(p)
  /\ \E p \in Invocations : Listed(p)

(***************************************************************************)
(* Properties of the inspection of one package.                            *)
(***************************************************************************)
topLevelOf(t) == {e.path[1] : e \in {x \in t : Len(x.path) >= 1}}
\* The package has exactly one top-level entry and it is a directory.
SingleContainer(t) ==
  /\ Cardinality(topLevelOf(t)) = 1
  /\ IsDirAt(WithParents(t), <<CHOOSE r \in topLevelOf(t) : TRUE>>)
Unpacked == probe.op = "package" /\ probe.stage \in {"materialized", "detected"}

\* C11: when the package, archive or directory, has exactly one top-level entry
\* R and R is a directory, the materialized destination holds each file and
\* directory R/p of the package at the relative path p, with the same content,
\* and it holds nothing else.
C11_SingleContainerFlattened ==
  (Unpacked /\ SingleContainer(probe.entries)) =>
    \A dest \in {probe.zipDest, probe.dirDest} :
      /\ dest.exists
      /\ \A e \in WithParents(probe.entries) :
           Len(e.path) >= 2 => [e EXCEPT !.path = Tail(e.path)] \in dest.tree
      /\ \A d \in dest.tree :
           \E e \in WithParents(probe.entries) :
             e.path = <<CHOOSE r \in topLevelOf(probe.entries) : TRUE>> \o d.path
             /\ e.dir = d.dir /\ e.size = d.size

\* The folder MyVN with a script under game/ and a page, materialized from the
\* archive and from the directory.
C11_Witness ==
  /\ Unpacked
  /\ probe.entries = {File(<<"MyVN", "game", "script.rpy">>, 400),
                      File(<<"MyVN", "index.html">>, 300)}
  /\ File(<<"index.html">>, 300) \in probe.zipDest.tree
  /\ File(<<"game", "script.rpy">>, 400) \in probe.dirDest.tree

Reported == probe.op = "package" /\ probe.stage \in {"reported", "materialized", "detected"}

\* C12: for every package, the dry-run report detects the same thing (a Ren'Py
\* project, a compiled distribution, or neither) whether the package is given
\* as an archive or as the directory with the same content.
C12_ZipAndDirectoryAgree ==
  Reported => probe.zipDetected = probe.dirDetected

\* A project inside the single folder MyVN: both reports detect a project.
C12_Witness ==
  /\ Reported
  /\ probe.entries = {File(<<"MyVN", "game", "script.rpy">>, 400),
                      File(<<"MyVN", "game", "script.rpyc">>, 400)}
  /\ probe.zipPlan.flatten /\ probe.dirPlan.flatten
  /\ probe.zipDetected = "project" /\ probe.dirDetected = "project"

Detected == probe.op = "package" /\ probe.stage = "detected"
\* Some file with the extension lies under the top-level directory game, at any depth.
underGame(tree, ext) ==
  \E f \in tree : ~f.dir /\ Len(f.path) >= 2 /\ f.path[1] = "game"
                  /\ extname(f.path[Len(f.path)]) = ext

\* C13: a directory is taken for a Ren'Py project exactly when it has a
\* directory game/ with a .rpy file at some depth, and for a compiled
\* distribution exactly when it has a directory game/ with a .rpyc file and no
\* .rpy file; otherwise (also without game/) for neither, and never for both.
C13_ClassificationOfDirectory ==
  Detected =>
    LET tree == probe.dirDest.tree
        hasGame == \E e \in tree : e.path = <<"game">> /\ e.dir
    IN /\ probe.project <=> (hasGame /\ underGame(tree, ".rpy"))
       /\ probe.distribution <=>
            (hasGame /\ underGame(tree, ".rpyc") /\ ~underGame(tree, ".rpy"))
       /\ ~(probe.project /\ probe.distribution)

\* game/ holds a compiled script and, one level deeper, a source script: a project.
C13_Witness ==
  /\ Detected
  /\ File(<<"game", "tl", "script.rpy">>, 400) \in probe.dirDest.tree
  /\ File(<<"game", "script.rpyc">>, 400) \in probe.dirDest.tree
  /\ probe.project /\ ~probe.distribution

Resolved == probe.op = "destination" /\ probe.stage = "resolved"
\* The names of the files with a .html name directly at the root, as listed for
\* the operator: in ascending order of their names.
candidates == probe.rootHtmlFiles
decimal(k) == CASE k = 1 -> "1" [] k = 2 -> "2" [] k = 3 -> "3" [] OTHER -> "4"
\* The answer is a number of the list, alone or followed by other characters.
beginsWithListNumber(raw, n) ==
  \E k \in 1..n : raw \in {decimal(k), decimal(k) \o "x", decimal(k) \o ".html"}

C17_ListedNameIsSelected ==
  (Resolved /\ Len(candidates) > 1 /\ probe.raw \in Range(candidates)) =>
    probe.entryPoint = probe.raw

Selected == probe.op = "images" /\ probe.stage = "selected"
\* The image files of the tree whose size can be read.
readableImages ==
  {e \in probe.tree : ~e.dir /\ extname(e.path[Len(e.path)]) \in IMAGE_EXTENSIONS
                      /\ e.path \notin probe.unreadable}
\* The ranks, in the ordered hint list, of the hints a lower-cased base name contains.
hintsContained(name) ==
  CASE name = "logo.png" -> {6}
    [] name = "splash.png" -> {7}
    [] name = "logo-icon.png" -> {1, 6}
    [] OTHER -> {}
\* 100 at the root, 50 - rank for the first hint the name contains, 10 above 1000 bytes.
statedScore(e) ==
  LET ranks == hintsContained(e.path[Len(e.path)])
  IN (IF Len(e.path) = 1 THEN 100 ELSE 0)
     + (IF ranks # {} THEN 50 - (CHOOSE r \in ranks : \A q \in ranks : r <= q) ELSE 0)
     + (IF e.size > 1000 THEN 10 ELSE 0)
position(order, n) == CHOOSE i \in 1..Len(order) : order[i] = n
\* The walk reaches p before q: at the first segment where they differ, the
\* name of p is listed first.
reachedBefore(order, p, q) ==
  \E i \in 1..Len(p) :
    /\ i <= Len(q)
    /\ SubSeq(p, 1, i - 1) = SubSeq(q, 1, i - 1)
    /\ position(order, p[i]) < position(order, q[i])

\* C19: the selector returns none when no image can be read, and otherwise a
\* readable image such that every other readable image has a lower score, or
\* the same score and a smaller size, or the same score and size and is reached
\* later by the walk.  A file whose size cannot be read is never returned.
C19_BestImageSelected ==
  Selected =>
    LET r == probe.thumbnailCandidate
    IN IF readableImages = {} THEN ~r.found
       ELSE /\ r.found
            /\ \E c \in readableImages :
                 /\ c.path = r.filePath
                 /\ r.ext = extname(c.path[Len(c.path)])
                 /\ \A o \in readableImages \ {c} :
                      \/ statedScore(c) > statedScore(o)
                      \/ statedScore(c) = statedScore(o) /\ c.size > o.size
                      \/ /\ statedScore(c) = statedScore(o) /\ c.size = o.size
                         /\ reachedBefore(probe.order, c.path, o.path)

\* Two images with the same score and size, and a larger one that cannot be
\* read: the one in the folder listed first is returned.
C19_Witness ==
  /\ Selected
  /\ probe.tree = WithParents({File(<<"MyVN", "logo.png">>, 1500),
                               File(<<"site", "logo.png">>, 1500),
                               File(<<"game", "logo.png">>, 3000)})
  /\ probe.unreadable = {<<"game", "logo.png">>}
  /\ probe.order[1] = "splash.png"
  /\ probe.thumbnailCandidate.filePath = <<"site", "logo.png">>


\* C30: the launcher is started exactly for a package whose planned root is
\* classified as a buildable project, never for a compiled distribution or a
\* static bundle, and what the dry-run report detects for a source is the build
\* decision the real run takes for it: the report names a project if and only
\* if the real run finds a project in the destination, for the archive and for
\* the directory.
C30_DryRunReportIsBuildDecision ==
  (probe.op = "package" /\ probe.stage = "detected") =>
     /\ (probe.zipDetected = "project") <=> probe.zipProjectPath.found
     /\ (probe.dirDetected = "project") <=> probe.dirProjectPath.found

\* C31: once a project is found in the destination, the run checks the SDK
\* directory, then Renpyweb, then the launcher: it ends with the error of the
\* first of the three that is missing, whatever else is missing too, and then
\* the launcher was not started, no icon was renamed, and the destination with
\* the project (and so any update.pem in it) is gone; it goes on to the build
\* only when all three are there.
PreconditionsChecked == RealRun /\ run.project.found
C31_FirstUnmetPreconditionReported ==
  PreconditionsChecked =>
    /\ run.failure = "nosdk" <=> ~run.sdk.sdkRoot
    /\ run.failure = "nowebsupport" <=> (run.sdk.sdkRoot /\ ~run.sdk.web)
    /\ run.failure = "nolauncher" <=> (run.sdk.sdkRoot /\ run.sdk.web /\ ~run.sdk.launcher)
    /\ run.failure \in {"nosdk", "nowebsupport", "nolauncher"} =>
         /\ Done /\ run.exitCode = 1
         /\ ~run.spawned
         /\ run.hiddenIcons = {}
         /\ ~destination.exists
    /\ run.spawned => (run.sdk.sdkRoot /\ run.sdk.web /\ run.sdk.launcher)
C31_Witness ==
  /\ PreconditionsChecked /\ Done
  /\ run.failure = "nowebsupport" /\ ~run.sdk.launcher
  /\ Sources[run.src].entries = MyVNTree

(***************************************************************************)
(* Properties of the discovery of the build output.                        *)
(***************************************************************************)
\* The name with every white-space character replaced by an underscore,
\* lower-cased.
statedBaseName(name) ==
  [i \in 1..Len(name) |-> IF name[i] = " " THEN "_" ELSE lowerChar(name[i])]
OutputFound == probe.op = "output" /\ probe.stage \in {"found", "installed", "badweb"}
chosenDists == probe.parentEntries[probe.distBaseDir]
chosenWeb == chosenDists.entries[probe.webEntry]

\* C32: the entry chosen next to the project has a name that ends with -dists
\* and, lower-cased, starts with the project's base name (white space replaced
\* by _, lower-cased); the entry chosen inside it has web in its name; when
\* that is a directory or a .zip, the destination afterwards holds exactly its
\* content (its extracted content) and the directories above it, and nothing
\* of the project that was there.
C32_DestinationIsWebOutput ==
  OutputFound =>
    /\ endsWith(chosenDists.name, DistsSuffix)
    /\ startsWith(toLowerCase(chosenDists.name), statedBaseName(probe.projectName))
    /\ includes(chosenWeb.name, WebMarker)
    /\ probe.stage = "installed" =>
         /\ chosenWeb.dir \/ endsWith(toLowerCase(chosenWeb.name), ZipSuffix)
         /\ probe.dest = ExistingDir(WithParents(chosenWeb.tree))
         /\ \A e \in ProjectTree : e \notin probe.dest.tree
C32_Witness ==
  /\ probe.op = "output" /\ probe.stage = "installed"
  /\ probe.webKind = "zip" /\ Len(probe.projectName) > 1
  /\ probe.dest.tree = FreshWebTree

\* C39: the -dists directory whose web entry is installed is the one the
\* launcher wrote in this run, also when the parent directory lists another
\* -dists directory whose name starts with the project's base name.
C39_InstalledOutputIsFresh ==
  (probe.op = "output" /\ probe.stage = "installed") => chosenDists.fresh

(***************************************************************************)
(* Properties of the hoist.                                                *)
(***************************************************************************)
Hoisted == probe.op = "hoist" /\ probe.stage = "hoisted"
rootHasHtml(t) == \E e \in t : Len(e.path) = 1 /\ ~e.dir /\ extname(BaseName(e)) = ".html"
\* The names of the folders at the root that hold a page directly.
pageFolders(t) ==
  {e.path[1] : e \in {x \in t : Len(x.path) = 2 /\ ~x.dir /\ extname(BaseName(x)) = ".html"}}
hoistExpected ==
  probe.builtRenpy /\ ~rootHasHtml(probe.tree) /\ Cardinality(pageFolders(probe.tree)) = 1
theFolder == CHOOSE n \in pageFolders(probe.tree) : TRUE
under(t, n) == {e \in t : e.path[1] = n}

noClash ==
  \A e \in under(probe.tree, theFolder) :
    Len(e.path) = 2 => ~\E r \in probe.tree : r.path = <<e.path[2]>>

Extracted == probe.op = "name" /\ probe.stage = "extracted"
\* The name is game, a separator, v or nothing, the version, and the extension.
shaped(ver, ext) ==
  \E sep \in {<<"-">>, <<"_">>}, v \in {<<>>, <<"v">>} :
    probe.filename = NameStem \o sep \o v \o ver \o ext

\* C36: add-game finds A.B.C in <name>[-_][v]A.B.C.zip, A.B in
\* <name>[-_][v]A.B.zip, A in <name>[-_][v]A.zip and A.B.C in the directory
\* name <name>-A.B.C; and on every name that ends with .zip it finds what
\* update-game finds.
C36_DocumentedNamesGiveVersion ==
  Extracted =>
    /\ \A ver \in {<<"1", ".", "2", ".", "3">>, <<"1", ".", "0">>, <<"2">>} :
         shaped(ver, ZipSuffix) => probe.addVersion = ver
    /\ probe.filename = NameStem \o <<"-">> \o <<"1", ".", "2", ".", "3">>
         => probe.addVersion = <<"1", ".", "2", ".", "3">>
    /\ endsWith(probe.filename, ZipSuffix) => probe.addVersion = probe.updateVersion

\* The image files of the tree, and those directly at its root.
images == {e \in probe.tree : ~e.dir /\ extname(e.path[Len(e.path)]) \in IMAGE_EXTENSIONS}
rootImages == {e \in images : Len(e.path) = 1}

\* C37: when the destination has an image directly at its root, the selector
\* returns an image at the root; every image at the root scores higher than
\* every image in a folder.
C37_RootImageWins ==
  Selected =>
    /\ \A r \in rootImages, o \in images \ rootImages : thumbnailScore(r) > thumbnailScore(o)
    /\ rootImages # {} =>
         (probe.thumbnailCandidate.found /\ Len(probe.thumbnailCandidate.filePath) = 1)

\* C37, amended: the same when the destination has an image directly at its
\* root whose size can be read.
C37_ReadableRootImageWins ==
  Selected =>
    /\ \A r \in rootImages, o \in images \ rootImages : thumbnailScore(r) > thumbnailScore(o)
    /\ rootImages \cap readableImages # {} =>
         /\ probe.thumbnailCandidate.found
         /\ \E r \in rootImages \cap readableImages : probe.thumbnailCandidate.filePath = r.path
C37_Witness ==
  /\ Selected
  /\ probe.thumbnailCandidate.found
  /\ probe.thumbnailCandidate.filePath = <<"shot.JPG">>
  /\ File(<<"game", "logo.png">>, 3000) \in probe.tree
  /\ probe.unreadable = {}

\* C38: while a zip source is materialized, every file or directory that is
\* created lies inside the destination directory of the id, whatever the entry
\* names are, names with ".." after the single top-level folder included.
isInside(dir, location) ==
  Len(location) > Len(dir) /\ SubSeq(location, 1, Len(dir)) = dir
ArchiveExtracted == probe.op = "archive" /\ probe.stage = "extracted"
C38_ExtractionStaysInDestination ==
  ArchiveExtracted => \A location \in probe.created : isInside(gameDirOf("a"), location)

=========================================================================
